---- MODULE Spec2Model ----
(***************************************************************************)
(* A model of create-ts-dash, a project-scaffolding command line tool.     *)
(*                                                                         *)
(* Strings whose characters the program inspects (arguments, project       *)
(* names, user agents, shell commands) are sequences of one-character      *)
(* strings, so that startsWith, join, trim and the regular-expression      *)
(* replacements are computed character by character.  Enumerated keys      *)
(* (package managers, server keys, tooling keys, file paths) and fixed     *)
(* texts that are only written or printed are TLA+ strings.                *)
(***************************************************************************)
EXTENDS Integers, Sequences, FiniteSets, TLC

VARIABLES
    call,             \* pure-function harness: the function applied and its input
    ret,              \* pure-function harness: the value returned
    pc,               \* main: position in main()
    argv,             \* main: process.argv.slice(2)
    projectName,      \* main: let projectName
    selectedServer,   \* main: let selectedServer
    selectedTooling,  \* main: let selectedTooling
    skipPrompts,      \* main: let skipPrompts
    prompted,         \* main: the prompts issued so far, in order
    output,           \* main: lines printed with console.log / console.error
    exitCode,         \* main: process exit code, NoExit while running
    rootExists,       \* file system: does the project root exist
    files,            \* file system: path under root -> content
    pm,               \* main: const pm
    packageName,      \* main: const packageName
    deps,             \* main: const deps
    executed,         \* main: commands run with execSync, in order
    gitRepo           \* file system: has git init succeeded in root

vars ==
    <<call, ret, pc, argv, projectName, selectedServer, selectedTooling, skipPrompts,
      prompted, output, exitCode, rootExists, files, pm, packageName, deps, executed,
      gitRepo>>

fnVars ==
    <<call, ret>>

mainVars ==
    <<pc, argv, projectName, selectedServer, selectedTooling, skipPrompts, prompted,
      output, exitCode, rootExists, files, pm, packageName, deps, executed, gitRepo>>

-----------------------------------------------------------------------------
(* Bounds of the model *)

\* longest dependency list handed to getAddCommand on its own
MaxDeps ==
    3

\* longest project name handed to toValidPackageName on its own
MaxLen ==
    4

\* longest argument list handed to parseArgs on its own
MaxArgs ==
    3

\* longest argument list of a run of main()
MaxMainArgs ==
    3

-----------------------------------------------------------------------------
(* JavaScript values and string helpers *)

\* undefined where a string is expected (distinct from every character sequence)
UndefinedStr ==
    <<"undefined">>

\* undefined where an enumerated key is expected
UndefinedKey ==
    "undefined"

\* String.prototype.startsWith
StartsWith(s, p) ==
    /\ Len(s) >= Len(p)
    /\ SubSeq(s, 1, Len(p)) = p

\* Array.prototype.join: the separator goes before every element but the first
RECURSIVE JoinFrom(_, _, _, _)
JoinFrom(list, sep, i, acc) ==
    IF i > Len(list) THEN acc
    ELSE JoinFrom(list, sep, i + 1, IF i = 1 THEN list[1] ELSE acc \o sep \o list[i])

Join(list, sep) ==
    JoinFrom(list, sep, 1, <<>>)

\* all sequences over S of length at most n
SeqsUpTo(S, n) ==
    UNION {[1..k -> S] : k \in 0..n}

-----------------------------------------------------------------------------
(* package-manager.ts *)

PackageManagers ==
    {"npm", "yarn", "pnpm", "bun"}

UA_yarn ==
    <<"y", "a", "r", "n", "/", "1", ".", "2", "2", ".", "0">>
UA_pnpm ==
    <<"p", "n", "p", "m", "/", "8", ".", "0", ".", "0">>
UA_bun ==
    <<"b", "u", "n", "/", "1", ".", "0", ".", "0">>
UA_npm ==
    <<"n", "p", "m", "/", "9", ".", "0", ".", "0">>
UA_empty ==
    <<>>
UA_short ==
    <<"y", "a">>
UA_inner ==
    <<"x", " ", "y", "a", "r", "n", "/", "1">>
Pfx_yarn ==
    <<"y", "a", "r", "n">>
Pfx_pnpm ==
    <<"p", "n", "p", "m">>
Pfx_bun ==
    <<"b", "u", "n">>

\* values of process.env.npm_config_user_agent
UserAgents ==
    {UndefinedStr, UA_empty, UA_yarn, UA_pnpm, UA_bun, UA_npm, UA_short, UA_inner}

\* a variant that looks for the name anywhere in the user agent
detectPackageManager_Includes(userAgent) ==
    LET Includes(s, p) == \E i \in 1..Len(s) : StartsWith(SubSeq(s, i, Len(s)), p)
    IN  IF userAgent # UndefinedStr /\ userAgent # <<>>
        THEN IF Includes(userAgent, Pfx_yarn) THEN "yarn"
             ELSE IF Includes(userAgent, Pfx_pnpm) THEN "pnpm"
             ELSE IF Includes(userAgent, Pfx_bun) THEN "bun"
             ELSE "npm"
        ELSE "npm"

detectPackageManager(userAgent) ==
    IF userAgent # UndefinedStr /\ userAgent # <<>>
    THEN IF StartsWith(userAgent, Pfx_yarn) THEN "yarn"
         ELSE IF StartsWith(userAgent, Pfx_pnpm) THEN "pnpm"
         ELSE IF StartsWith(userAgent, Pfx_bun) THEN "bun"
         ELSE "npm"
    ELSE "npm"

YarnInit ==
    <<"y", "a", "r", "n", " ", "i", "n", "i", "t", " ", "-", "y">>
PnpmInit ==
    <<"p", "n", "p", "m", " ", "i", "n", "i", "t">>
BunInit ==
    <<"b", "u", "n", " ", "i", "n", "i", "t", " ", "-", "y">>
NpmInit ==
    <<"n", "p", "m", " ", "i", "n", "i", "t", " ", "-", "y">>
YarnAdd ==
    <<"y", "a", "r", "n", " ", "a", "d", "d", " ">>
PnpmAdd ==
    <<"p", "n", "p", "m", " ", "a", "d", "d", " ">>
BunAdd ==
    <<"b", "u", "n", " ", "a", "d", "d", " ">>
NpmInstall ==
    <<"n", "p", "m", " ", "i", "n", "s", "t", "a", "l", "l", " ">>

\* a variant that has lost the case for bun
getInitCommand_NoBun(p) ==
    CASE p = "yarn" -> YarnInit
      [] p = "pnpm" -> PnpmInit
      [] OTHER -> NpmInit

getInitCommand(p) ==
    CASE p = "yarn" -> YarnInit
      [] p = "pnpm" -> PnpmInit
      [] p = "bun" -> BunInit
      [] OTHER -> NpmInit

\* a variant that joins the names with commas
getAddCommand_Comma(p, ds) ==
    LET depsStr == Join(ds, <<",">>)
    IN  CASE p = "yarn" -> YarnAdd \o depsStr
          [] p = "pnpm" -> PnpmAdd \o depsStr
          [] p = "bun" -> BunAdd \o depsStr
          [] OTHER -> NpmInstall \o depsStr

getAddCommand(p, ds) ==
    LET depsStr == Join(ds, <<" ">>)
    IN  CASE p = "yarn" -> YarnAdd \o depsStr
          [] p = "pnpm" -> PnpmAdd \o depsStr
          [] p = "bun" -> BunAdd \o depsStr
          [] OTHER -> NpmInstall \o depsStr

-----------------------------------------------------------------------------
(* templates.ts: dependency names of the registry *)

Dep_tsx ==
    <<"t", "s", "x">>
Dep_typescript ==
    <<"t", "y", "p", "e", "s", "c", "r", "i", "p", "t">>
Dep_types_node ==
    <<"@", "t", "y", "p", "e", "s", "/", "n", "o", "d", "e">>
Dep_rimraf ==
    <<"r", "i", "m", "r", "a", "f">>
Dep_express ==
    <<"e", "x", "p", "r", "e", "s", "s">>
Dep_types_express ==
    <<"@", "t", "y", "p", "e", "s", "/", "e", "x", "p", "r", "e", "s", "s">>
Dep_fastify ==
    <<"f", "a", "s", "t", "i", "f", "y">>
Dep_hono ==
    <<"h", "o", "n", "o">>
Dep_hono_node_server ==
    <<"@", "h", "o", "n", "o", "/", "n", "o", "d", "e", "-", "s", "e", "r", "v", "e", "r">>
Dep_eslint ==
    <<"e", "s", "l", "i", "n", "t">>
Dep_prettier ==
    <<"p", "r", "e", "t", "t", "i", "e", "r">>
Dep_eslint_js ==
    <<"@", "e", "s", "l", "i", "n", "t", "/", "j", "s">>
Dep_typescript_eslint ==
    <<"t", "y", "p", "e", "s", "c", "r", "i", "p", "t", "-", "e", "s", "l", "i", "n", "t">>
Dep_eslint_config_prettier ==
    <<"e", "s", "l", "i", "n", "t", "-", "c", "o", "n", "f", "i", "g", "-", "p", "r", "e", "t",
      "t", "i", "e", "r">>
Dep_eslint_plugin_prettier ==
    <<"e", "s", "l", "i", "n", "t", "-", "p", "l", "u", "g", "i", "n", "-", "p", "r", "e", "t",
      "t", "i", "e", "r">>
Dep_vitest ==
    <<"v", "i", "t", "e", "s", "t">>

-----------------------------------------------------------------------------
(* templates.ts: registries, file contents, template and script selection *)

ServerKeys ==
    {"express", "fastify", "hono"}

ToolingKeys ==
    {"lint", "vitest"}

\* File texts are sequences of pieces (one per source line); the back-quote character,
\* which a TLA+ string cannot hold, is the piece Backtick.
Backtick ==
    "U+0060"

ExpressTemplate ==
    << "import express from 'express';\n",
       "\n",
       "const app = express();\n",
       "const port = 3000;\n",
       "\n",
       "app.get('/', (req, res) => {\n",
       "  res.send('Hello, world!');\n",
       "});\n",
       "\n",
       "app.listen(port, () => {\n",
       "  console.log(",
       Backtick,
       "Server running at http://localhost:${port}",
       Backtick,
       ");\n",
       "});\n" >>
FastifyTemplate ==
    << "import Fastify from 'fastify';\n",
       "\n",
       "const fastify = Fastify({ logger: true });\n",
       "\n",
       "fastify.get('/', async () => {\n",
       "  return { hello: 'world' };\n",
       "});\n",
       "\n",
       "const start = async () => {\n",
       "  try {\n",
       "    await fastify.listen({ port: 3000 });\n",
       "  } catch (err) {\n",
       "    fastify.log.error(err);\n",
       "    process.exit(1);\n",
       "  }\n",
       "};\n",
       "\n",
       "start();\n" >>
HonoTemplate ==
    << "import { Hono } from 'hono';\n",
       "import { serve } from '@hono/node-server';\n",
       "\n",
       "const app = new Hono();\n",
       "\n",
       "app.get('/', (c) => {\n",
       "  return c.text('Hello, world!');\n",
       "});\n",
       "\n",
       "serve({ fetch: app.fetch, port: 3000 }, (info) => {\n",
       "  console.log(",
       Backtick,
       "Server running at http://localhost:${info.port}",
       Backtick,
       ");\n",
       "});\n" >>

servers ==
    << [label |-> "Express", value |-> "express",
        description |-> "Fast, unopinionated, minimalist web framework",
        dependencies |-> <<Dep_express, Dep_types_express>>,
        template |-> ExpressTemplate],
       [label |-> "Fastify", value |-> "fastify",
        description |-> "Fast and low overhead web framework",
        dependencies |-> <<Dep_fastify>>,
        template |-> FastifyTemplate],
       [label |-> "Hono", value |-> "hono",
        description |-> "Lightweight, ultrafast web framework",
        dependencies |-> <<Dep_hono, Dep_hono_node_server>>,
        template |-> HonoTemplate] >>

tooling ==
    << [label |-> "ESLint + Prettier", value |-> "lint",
        description |-> "Add linting and formatting",
        dependencies |-> <<Dep_eslint, Dep_prettier, Dep_eslint_js, Dep_typescript_eslint,
                           Dep_eslint_config_prettier, Dep_eslint_plugin_prettier>>],
       [label |-> "Vitest", value |-> "vitest",
        description |-> "Add Vitest for testing",
        dependencies |-> <<Dep_vitest>>] >>

eslintConfig ==
    << "import eslint from '@eslint/js';\n",
       "import tseslint from 'typescript-eslint';\n",
       "import prettierConfig from 'eslint-config-prettier';\n",
       "import prettierPlugin from 'eslint-plugin-prettier';\n",
       "\n",
       "export default tseslint.config(\n",
       "  eslint.configs.recommended,\n",
       "  ...tseslint.configs.recommended,\n",
       "  prettierConfig,\n",
       "  {\n",
       "    plugins: {\n",
       "      prettier: prettierPlugin,\n",
       "    },\n",
       "    rules: {\n",
       "      'prettier/prettier': 'error',\n",
       "      '@typescript-eslint/no-unused-vars': [\n",
       "        'error',\n",
       "        { argsIgnorePattern: '^_', varsIgnorePattern: '^_' },\n",
       "      ],\n",
       "      '@typescript-eslint/consistent-type-imports': 'error',\n",
       "      '@typescript-eslint/no-explicit-any': 'warn',\n",
       "    },\n",
       "  },\n",
       "  {\n",
       "    ignores: ['dist/', 'node_modules/'],\n",
       "  }\n",
       ");\n" >>
prettierConfigFile ==
    << "{\n",
       "  \"semi\": true,\n",
       "  \"singleQuote\": true,\n",
       "  \"tabWidth\": 2,\n",
       "  \"trailingComma\": \"es5\",\n",
       "  \"printWidth\": 100\n",
       "}\n" >>
vitestExample ==
    << "import { describe, it, expect } from 'vitest';\n",
       "\n",
       "function sum(a: number, b: number): number {\n",
       "  return a + b;\n",
       "}\n",
       "\n",
       "describe('sum', () => {\n",
       "  it('adds two numbers', () => {\n",
       "    expect(sum(1, 2)).toBe(3);\n",
       "  });\n",
       "\n",
       "  it('handles negative numbers', () => {\n",
       "    expect(sum(-1, 1)).toBe(0);\n",
       "  });\n",
       "});\n" >>
defaultTemplate ==
    << "console.log('Hello, world!');\n" >>

\* Array.prototype.find with the predicate (s) => s.value === key:
\* the index of the first match, 0 when there is none (undefined)
RECURSIVE FindFrom(_, _, _)
FindFrom(list, key, i) ==
    IF i > Len(list) THEN 0
    ELSE IF list[i].value = key THEN i
    ELSE FindFrom(list, key, i + 1)

FindByValue(list, key) ==
    FindFrom(list, key, 1)

\* a variant whose find accepts the first entry whatever its key
getIndexTemplate_FirstEntry(server) ==
    IF server # UndefinedKey THEN servers[1].template ELSE defaultTemplate

getIndexTemplate(server) ==
    IF server # UndefinedKey
    THEN LET serverConfig == FindByValue(servers, server)
         IN  IF serverConfig # 0 THEN servers[serverConfig].template ELSE defaultTemplate
    ELSE defaultTemplate

\* obj[key] = value on a Record<string, string>
SetKey(obj, key, value) ==
    (key :> value) @@ obj

\* a variant in which the test group writes its watch command under the key "start"
getScripts_TestOverStart(server, selTooling) ==
    LET scripts0 == ("start" :> "tsx watch ./src/index.ts") @@ ("build" :> "rimraf ./dist && tsc")
        scripts1 == IF server # UndefinedKey
                    THEN SetKey(scripts0, "dev", "tsx watch ./src/index.ts")
                    ELSE scripts0
        scripts2 == IF "lint" \in selTooling
                    THEN SetKey(SetKey(SetKey(scripts1, "lint", "eslint src/"),
                                       "lint:fix", "eslint src/ --fix"),
                                "format", "prettier --write src/")
                    ELSE scripts1
        scripts3 == IF "vitest" \in selTooling
                    THEN SetKey(SetKey(SetKey(scripts2, "start", "vitest"), "test", "vitest"),
                                "test:run", "vitest run")
                    ELSE scripts2
    IN  scripts3

getScripts(server, selTooling) ==
    LET scripts0 == ("start" :> "tsx watch ./src/index.ts") @@ ("build" :> "rimraf ./dist && tsc")
        scripts1 == IF server # UndefinedKey
                    THEN SetKey(scripts0, "dev", "tsx watch ./src/index.ts")
                    ELSE scripts0
        scripts2 == IF "lint" \in selTooling
                    THEN SetKey(SetKey(SetKey(scripts1, "lint", "eslint src/"),
                                       "lint:fix", "eslint src/ --fix"),
                                "format", "prettier --write src/")
                    ELSE scripts1
        scripts3 == IF "vitest" \in selTooling
                    THEN SetKey(SetKey(scripts2, "test", "vitest"), "test:run", "vitest run")
                    ELSE scripts2
    IN  scripts3

-----------------------------------------------------------------------------
(* args.ts: parseArgs *)

Arg_express ==
    <<"-", "-", "e", "x", "p", "r", "e", "s", "s">>
Arg_e ==
    <<"-", "e">>
Arg_fastify ==
    <<"-", "-", "f", "a", "s", "t", "i", "f", "y">>
Arg_f ==
    <<"-", "f">>
Arg_hono ==
    <<"-", "-", "h", "o", "n", "o">>
Arg_h ==
    <<"-", "h">>
Arg_lint ==
    <<"-", "-", "l", "i", "n", "t">>
Arg_l ==
    <<"-", "l">>
Arg_vitest ==
    <<"-", "-", "v", "i", "t", "e", "s", "t">>
Arg_t ==
    <<"-", "t">>
Arg_yes ==
    <<"-", "-", "y", "e", "s">>
Arg_y ==
    <<"-", "y">>

\* arguments that are no known flag: two names, the empty string, an unknown flag,
\* a lone dash
Arg_empty ==
    <<>>
Arg_myApp ==
    <<"m", "y", "-", "a", "p", "p">>
Arg_MyApi ==
    <<"M", "y", " ", "A", "p", "i">>
Arg_unknown ==
    <<"-", "-", "f", "o", "o">>
Arg_dash ==
    <<"-">>

ArgTokens ==
    {Arg_express, Arg_e, Arg_fastify, Arg_f, Arg_hono, Arg_h, Arg_lint, Arg_l, Arg_vitest,
     Arg_t, Arg_yes, Arg_y, Arg_myApp, Arg_MyApi, Arg_empty, Arg_unknown, Arg_dash}

Str_express ==
    <<"e", "x", "p", "r", "e", "s", "s">>
Str_fastify ==
    <<"f", "a", "s", "t", "i", "f", "y">>
Str_hono ==
    <<"h", "o", "n", "o">>

\* the characters of a server key, as a template literal interpolates it
KeyChars(key) ==
    CASE key = "express" -> Str_express
      [] key = "fastify" -> Str_fastify
      [] key = "hono" -> Str_hono

RECURSIVE MapKeyChars(_)
MapKeyChars(keys) ==
    IF keys = <<>> THEN <<>> ELSE <<KeyChars(Head(keys))>> \o MapKeyChars(Tail(keys))

MultipleServersPrefix ==
    <<"E", "r", "r", "o", "r", ":", " ", "C", "a", "n", "n", "o", "t", " ", "s", "e", "l", "e",
      "c", "t", " ", "m", "u", "l", "t", "i", "p", "l", "e", " ", "w", "e", "b", " ", "s", "e",
      "r", "v", "e", "r", "s", ".", " ", "Y", "o", "u", " ", "s", "p", "e", "c", "i", "f", "i",
      "e", "d", ":", " ">>

\* the process exit status: NoExit while it runs, Exit(code) after process.exit(code)
NoExit ==
    <<>>

Exit(code) ==
    <<code>>

\* a variant of the loop body that does not know the shorthand -h
ParseArg_NoShortHono(acc, arg) ==
    IF arg = Arg_express \/ arg = Arg_e
    THEN [acc EXCEPT !.serverFlags = Append(@, "express")]
    ELSE IF arg = Arg_fastify \/ arg = Arg_f
    THEN [acc EXCEPT !.serverFlags = Append(@, "fastify")]
    ELSE IF arg = Arg_hono
    THEN [acc EXCEPT !.serverFlags = Append(@, "hono")]
    ELSE IF arg = Arg_lint \/ arg = Arg_l
    THEN [acc EXCEPT !.result.tooling = @ \cup {"lint"}]
    ELSE IF arg = Arg_vitest \/ arg = Arg_t
    THEN [acc EXCEPT !.result.tooling = @ \cup {"vitest"}]
    ELSE IF arg = Arg_yes \/ arg = Arg_y
    THEN [acc EXCEPT !.result.yes = TRUE]
    ELSE IF ~StartsWith(arg, <<"-">>)
    THEN [acc EXCEPT !.result.projectName = arg]
    ELSE acc

\* a variant of the iteration that keeps the first positional argument
ParseArg_FirstPositionalWins(acc, arg) ==
    IF arg = Arg_express \/ arg = Arg_e
    THEN [acc EXCEPT !.serverFlags = Append(@, "express")]
    ELSE IF arg = Arg_fastify \/ arg = Arg_f
    THEN [acc EXCEPT !.serverFlags = Append(@, "fastify")]
    ELSE IF arg = Arg_hono \/ arg = Arg_h
    THEN [acc EXCEPT !.serverFlags = Append(@, "hono")]
    ELSE IF arg = Arg_lint \/ arg = Arg_l
    THEN [acc EXCEPT !.result.tooling = @ \cup {"lint"}]
    ELSE IF arg = Arg_vitest \/ arg = Arg_t
    THEN [acc EXCEPT !.result.tooling = @ \cup {"vitest"}]
    ELSE IF arg = Arg_yes \/ arg = Arg_y
    THEN [acc EXCEPT !.result.yes = TRUE]
    ELSE IF ~StartsWith(arg, <<"-">>) /\ acc.result.projectName = UndefinedStr
    THEN [acc EXCEPT !.result.projectName = arg]
    ELSE acc

\* the for loop of parseArgs: one iteration on acc = [result, serverFlags]
ParseArg(acc, arg) ==
    IF arg = Arg_express \/ arg = Arg_e
    THEN [acc EXCEPT !.serverFlags = Append(@, "express")]
    ELSE IF arg = Arg_fastify \/ arg = Arg_f
    THEN [acc EXCEPT !.serverFlags = Append(@, "fastify")]
    ELSE IF arg = Arg_hono \/ arg = Arg_h
    THEN [acc EXCEPT !.serverFlags = Append(@, "hono")]
    ELSE IF arg = Arg_lint \/ arg = Arg_l
    THEN [acc EXCEPT !.result.tooling = @ \cup {"lint"}]
    ELSE IF arg = Arg_vitest \/ arg = Arg_t
    THEN [acc EXCEPT !.result.tooling = @ \cup {"vitest"}]
    ELSE IF arg = Arg_yes \/ arg = Arg_y
    THEN [acc EXCEPT !.result.yes = TRUE]
    ELSE IF ~StartsWith(arg, <<"-">>)
    THEN [acc EXCEPT !.result.projectName = arg]
    ELSE acc

RECURSIVE ParseLoop(_, _, _)
ParseLoop(acc, args, i) ==
    IF i > Len(args) THEN acc ELSE ParseLoop(ParseArg(acc, args[i]), args, i + 1)

\* a variant that takes the first server flag instead of refusing several
parseArgs_FirstServerWins(args) ==
    LET result0 == [projectName |-> UndefinedStr, server |-> UndefinedKey,
                    tooling |-> {}, yes |-> FALSE]
        looped == ParseLoop([result |-> result0, serverFlags |-> <<>>], args, 1)
        serverFlags == looped.serverFlags
    IN  [result |-> IF Len(serverFlags) >= 1
                    THEN [looped.result EXCEPT !.server = serverFlags[1]]
                    ELSE looped.result,
         stderr |-> <<>>,
         exit |-> NoExit]

\* parseArgs(args): the record returned, what was written to console.error, and the
\* code process.exit was called with (NoExit when it was not called).  The record is
\* what a caller sees when process.exit returns, as under the mock of args.test.ts.
parseArgs(args) ==
    LET result0 == [projectName |-> UndefinedStr, server |-> UndefinedKey,
                    tooling |-> {}, yes |-> FALSE]
        looped == ParseLoop([result |-> result0, serverFlags |-> <<>>], args, 1)
        serverFlags == looped.serverFlags
        multiple == Len(serverFlags) > 1
    IN  [result |-> IF Len(serverFlags) = 1
                    THEN [looped.result EXCEPT !.server = serverFlags[1]]
                    ELSE looped.result,
         stderr |-> IF multiple
                    THEN <<MultipleServersPrefix \o Join(MapKeyChars(serverFlags), <<",", " ">>)>>
                    ELSE <<>>,
         exit |-> IF multiple THEN Exit(1) ELSE NoExit]

-----------------------------------------------------------------------------
(* args.ts: toValidPackageName *)

UpperLetters ==
    <<"A", "B", "C", "D", "E", "F", "G", "H", "I", "J", "K", "L", "M",
      "N", "O", "P", "Q", "R", "S", "T", "U", "V", "W", "X", "Y", "Z">>

LowerLetters ==
    <<"a", "b", "c", "d", "e", "f", "g", "h", "i", "j", "k", "l", "m",
      "n", "o", "p", "q", "r", "s", "t", "u", "v", "w", "x", "y", "z">>

Digits ==
    {"0", "1", "2", "3", "4", "5", "6", "7", "8", "9"}

\* the characters \s matches and trim() strips, among those the model uses
Whitespace ==
    {" ", "\t", "\n"}

Range(f) ==
    {f[i] : i \in DOMAIN f}

\* String.prototype.trim
RECURSIVE TrimStart(_)
TrimStart(s) ==
    IF s # <<>> /\ Head(s) \in Whitespace THEN TrimStart(Tail(s)) ELSE s

RECURSIVE TrimEnd(_)
TrimEnd(s) ==
    IF s # <<>> /\ s[Len(s)] \in Whitespace THEN TrimEnd(SubSeq(s, 1, Len(s) - 1)) ELSE s

Trim(s) ==
    TrimEnd(TrimStart(s))

\* String.prototype.toLowerCase
LowerChar(c) ==
    IF \E i \in DOMAIN UpperLetters : UpperLetters[i] = c
    THEN LowerLetters[CHOOSE i \in DOMAIN UpperLetters : UpperLetters[i] = c]
    ELSE c

ToLowerCase(s) ==
    [i \in DOMAIN s |-> LowerChar(s[i])]

\* s.replace(/[class]+/g, rep): scanning from the left, every match is the longest run of
\* characters of the class starting at the current position and becomes one rep
RECURSIVE SkipRun(_, _, _)
SkipRun(s, class, i) ==
    IF i <= Len(s) /\ s[i] \in class THEN SkipRun(s, class, i + 1) ELSE i

RECURSIVE ReplaceRunsFrom(_, _, _, _, _)
ReplaceRunsFrom(s, class, rep, i, acc) ==
    IF i > Len(s) THEN acc
    ELSE IF s[i] \in class
    THEN ReplaceRunsFrom(s, class, rep, SkipRun(s, class, i), acc \o rep)
    ELSE ReplaceRunsFrom(s, class, rep, i + 1, Append(acc, s[i]))

ReplaceRuns(s, class, rep) ==
    ReplaceRunsFrom(s, class, rep, 1, <<>>)

\* s.replace(/^[._]/, '')
StripLeadingDotOrUnderscore(s) ==
    IF s # <<>> /\ Head(s) \in {".", "_"} THEN Tail(s) ELSE s

\* the characters of the class [a-z0-9-~]
AllowedChars ==
    Range(LowerLetters) \cup Digits \cup {"-", "~"}

\* a variant whose last class also allows "." and "_"
toValidPackageName_DotsAllowed(name) ==
    LET trimmed == Trim(name)
        lowered == ToLowerCase(trimmed)
        spaced == ReplaceRuns(lowered, Whitespace, <<"-">>)
        stripped == StripLeadingDotOrUnderscore(spaced)
    IN  ReplaceRuns(stripped, Range(stripped) \ (AllowedChars \cup {".", "_"}), <<"-">>)

\* a variant without the whitespace step: whitespace falls to the last replacement
toValidPackageName_NoWhitespaceStep(name) ==
    LET trimmed == Trim(name)
        lowered == ToLowerCase(trimmed)
        stripped == StripLeadingDotOrUnderscore(lowered)
    IN  ReplaceRuns(stripped, Range(stripped) \ AllowedChars, <<"-">>)

\* a variant without the last replace
toValidPackageName_NoFinalReplace(name) ==
    LET trimmed == Trim(name)
        lowered == ToLowerCase(trimmed)
        spaced == ReplaceRuns(lowered, Whitespace, <<"-">>)
    IN  StripLeadingDotOrUnderscore(spaced)

toValidPackageName(name) ==
    LET trimmed == Trim(name)
        lowered == ToLowerCase(trimmed)
        spaced == ReplaceRuns(lowered, Whitespace, <<"-">>)
        stripped == StripLeadingDotOrUnderscore(spaced)
    IN  ReplaceRuns(stripped, Range(stripped) \ AllowedChars, <<"-">>)

-----------------------------------------------------------------------------
(* The exported functions applied on their own, as the unit tests apply them: *)
(* the initial state draws the input, one action applies the function.        *)

NoCall ==
    [fn |-> "none"]

NoRet ==
    [done |-> FALSE]

\* main() has not been started
MainIdle ==
    /\ pc = "idle"
    /\ argv = <<>>
    /\ projectName = UndefinedStr
    /\ selectedServer = UndefinedKey
    /\ selectedTooling = {}
    /\ skipPrompts = FALSE
    /\ prompted = <<>>
    /\ output = <<>>
    /\ exitCode = NoExit
    /\ rootExists = FALSE
    /\ files = <<>>
    /\ pm = "npm"
    /\ packageName = UndefinedStr
    /\ deps = <<>>
    /\ executed = <<>>
    /\ gitRepo = FALSE

\* dependency names handed to getAddCommand on its own
DepNames ==
    {Dep_tsx, Dep_types_node, Dep_express}

PMCalls ==
    {[fn |-> "detectPackageManager", userAgent |-> ua] : ua \in UserAgents}
    \cup {[fn |-> "getInitCommand", pm |-> p] : p \in PackageManagers}
    \cup {[fn |-> "getAddCommand", pm |-> p, deps |-> ds] :
             p \in PackageManagers, ds \in SeqsUpTo(DepNames, MaxDeps)}

InitPM ==
    /\ call \in PMCalls
    /\ ret = NoRet
    /\ MainIdle

CallDetectPackageManager ==
    /\ call.fn = "detectPackageManager"
    /\ ~ret.done
    /\ ret' = [done |-> TRUE, value |-> detectPackageManager(call.userAgent)]
    /\ UNCHANGED <<call, mainVars>>

CallGetInitCommand ==
    /\ call.fn = "getInitCommand"
    /\ ~ret.done
    /\ ret' = [done |-> TRUE, value |-> getInitCommand(call.pm)]
    /\ UNCHANGED <<call, mainVars>>

CallGetAddCommand ==
    /\ call.fn = "getAddCommand"
    /\ ~ret.done
    /\ ret' = [done |-> TRUE, value |-> getAddCommand(call.pm, call.deps)]
    /\ UNCHANGED <<call, mainVars>>

NextPM ==
    \/ CallDetectPackageManager
    \/ CallGetInitCommand
    \/ CallGetAddCommand

SpecPM ==
    InitPM /\ [][NextPM]_vars

\* characters of the project names handed to toValidPackageName on its own: a lower-case
\* letter, an upper-case letter, a digit, a space, the two characters the leading strip
\* removes, a character outside the allowed class, and the two allowed punctuation marks
NameChars ==
    {"a", "B", "1", " ", ".", "_", "!", "-", "~"}

InitName ==
    /\ call \in {[fn |-> "toValidPackageName", name |-> n] : n \in SeqsUpTo(NameChars, MaxLen)}
    /\ ret = NoRet
    /\ MainIdle

CallToValidPackageName ==
    /\ call.fn = "toValidPackageName"
    /\ ~ret.done
    /\ ret' = [done |-> TRUE, again |-> FALSE, value |-> toValidPackageName(call.name)]
    /\ UNCHANGED <<call, mainVars>>

\* the result is normalized once more
CallToValidPackageNameAgain ==
    /\ call.fn = "toValidPackageName"
    /\ ret.done
    /\ ~ret.again
    /\ ret' = [done |-> TRUE, again |-> TRUE, first |-> ret.value,
               value |-> toValidPackageName(ret.value)]
    /\ UNCHANGED <<call, mainVars>>

NextName ==
    \/ CallToValidPackageName
    \/ CallToValidPackageNameAgain

SpecName ==
    InitName /\ [][NextName]_vars

InitArgs ==
    /\ call \in {[fn |-> "parseArgs", args |-> a] : a \in SeqsUpTo(ArgTokens, MaxArgs)}
    /\ ret = NoRet
    /\ MainIdle

CallParseArgs ==
    /\ call.fn = "parseArgs"
    /\ ~ret.done
    /\ ret' = [done |-> TRUE, value |-> parseArgs(call.args)]
    /\ UNCHANGED <<call, mainVars>>

NextArgs ==
    CallParseArgs

SpecArgs ==
    InitArgs /\ [][NextArgs]_vars
-----------------------------------------------------------------------------
(* index.ts: main(), up to the resolution of the configuration *)

Msg_Cancelled_nl ==
    <<"\n", "O", "p", "e", "r", "a", "t", "i", "o", "n", " ", "c", "a", "n", "c", "e", "l",
      "l", "e", "d", ".">>
Msg_Cancelled ==
    <<"O", "p", "e", "r", "a", "t", "i", "o", "n", " ", "c", "a", "n", "c", "e", "l", "l", "e",
      "d", ".">>
Msg_NameRequired ==
    <<"P", "r", "o", "j", "e", "c", "t", " ", "n", "a", "m", "e", " ", "i", "s", " ", "r", "e",
      "q", "u", "i", "r", "e", "d", ".">>

TsProject ==
    <<"t", "s", "-", "p", "r", "o", "j", "e", "c", "t">>

\* console.log(text) and console.error(text)
Log(text) ==
    [stream |-> "log", text |-> text]

Err(text) ==
    [stream |-> "error", text |-> text]

\* JavaScript truthiness of an optional string: undefined and '' are falsy
Truthy(str) ==
    str # UndefinedStr /\ str # <<>>

\* arguments of the runs of main() the model explores: any list over MainArgTokens, any
\* list of two or more server flags, and lists whose positional argument is the empty
\* string
MainArgTokens ==
    {Arg_express, Arg_f, Arg_lint, Arg_t, Arg_y, Arg_myApp}

ServerFlags ==
    {Arg_express, Arg_e, Arg_fastify, Arg_f, Arg_hono, Arg_h}

MainArgLists ==
    SeqsUpTo(MainArgTokens, MaxMainArgs)
    \cup {a \in SeqsUpTo(ServerFlags, MaxMainArgs) : Len(a) >= 2}
    \cup {<<Arg_empty>>, <<Arg_empty, Arg_y>>, <<Arg_empty, Arg_express, Arg_lint>>,
          <<Arg_myApp, Arg_empty>>}
    \cup {<<<<".">>, Arg_y>>, <<<<".">>, Arg_f, Arg_lint>>}

\* answers to the project-name prompt: a name, a name that needs normalizing, the default
\* offered by the prompt, and the empty string
NameAnswers ==
    {Arg_myApp, Arg_MyApi, TsProject, <<>>}

\* the command line names the current working directory, which exists
NamesCwd(args) ==
    \E i \in DOMAIN args : args[i] = <<".">>

\* the project root before the run: missing, empty, or holding files, one of them under
\* a name the run may write
InitialRoots ==
    { [exists |-> FALSE, files |-> <<>>],
      [exists |-> TRUE, files |-> <<>>],
      [exists |-> TRUE, files |-> ("old.txt" :> "old") @@ (".prettierrc" :> "old")] }

Init ==
    /\ call = NoCall
    /\ ret = NoRet
    /\ pc = "start"
    /\ argv \in MainArgLists
    /\ projectName = UndefinedStr
    /\ selectedServer = UndefinedKey
    /\ selectedTooling = {}
    /\ skipPrompts = FALSE
    /\ prompted = <<>>
    /\ output = <<>>
    /\ exitCode = NoExit
    /\ \E r \in InitialRoots :
           /\ rootExists = r.exists
           /\ files = r.files
           /\ NamesCwd(argv) => r.exists
    /\ pm = "npm"
    /\ packageName = UndefinedStr
    /\ deps = <<>>
    /\ executed = <<>>
    /\ gitRepo = FALSE

\* process.exit(code), after printing the lines given
ExitWith(code, lines) ==
    /\ pc' = "exited"
    /\ exitCode' = Exit(code)
    /\ output' = output \o lines

\* const cliArgs = parseArgs(process.argv.slice(2)) and the destructuring let;
\* process.exit(1) inside parseArgs ends the run before anything is assigned
ParseArguments ==
    /\ pc = "start"
    /\ LET parsed == parseArgs(argv)
           printed == [i \in DOMAIN parsed.stderr |-> Err(parsed.stderr[i])]
       IN  IF parsed.exit # NoExit
           THEN /\ pc' = "exited"
                /\ exitCode' = parsed.exit
                /\ output' = output \o printed
                /\ UNCHANGED <<projectName, selectedServer, selectedTooling, skipPrompts>>
           ELSE /\ pc' = "name"
                /\ projectName' = parsed.result.projectName
                /\ selectedServer' = parsed.result.server
                /\ selectedTooling' = parsed.result.tooling
                /\ skipPrompts' = parsed.result.yes
                /\ output' = output \o printed
                /\ UNCHANGED exitCode
    /\ UNCHANGED <<fnVars, argv, prompted, rootExists, files, pm, packageName, deps,
                   executed, gitRepo>>

\* a variant that asks for the name only when no positional argument was given at all
ResolveName_OnlyWhenUndefined ==
    /\ pc = "name"
    /\ IF projectName = UndefinedStr
       THEN IF skipPrompts
            THEN /\ projectName' = TsProject
                 /\ pc' = "server"
                 /\ UNCHANGED prompted
            ELSE /\ prompted' = Append(prompted, "projectName")
                 /\ pc' = "awaitName"
                 /\ UNCHANGED projectName
       ELSE /\ pc' = "server"
            /\ UNCHANGED <<projectName, prompted>>
    /\ UNCHANGED <<fnVars, argv, selectedServer, selectedTooling, skipPrompts, output,
                   exitCode, rootExists, files, pm, packageName, deps, executed, gitRepo>>

\* if (!projectName): the default under skipPrompts, the text prompt otherwise
ResolveName ==
    /\ pc = "name"
    /\ IF ~Truthy(projectName)
       THEN IF skipPrompts
            THEN /\ projectName' = TsProject
                 /\ pc' = "server"
                 /\ UNCHANGED prompted
            ELSE /\ prompted' = Append(prompted, "projectName")
                 /\ pc' = "awaitName"
                 /\ UNCHANGED projectName
       ELSE /\ pc' = "server"
            /\ UNCHANGED <<projectName, prompted>>
    /\ UNCHANGED <<fnVars, argv, selectedServer, selectedTooling, skipPrompts, output,
                   exitCode, rootExists, files, pm, packageName, deps, executed, gitRepo>>

\* projectName = response.projectName
AnswerName ==
    /\ pc = "awaitName"
    /\ \E answer \in NameAnswers : projectName' = answer
    /\ pc' = "server"
    /\ UNCHANGED <<fnVars, argv, selectedServer, selectedTooling, skipPrompts, prompted,
                   output, exitCode, rootExists, files, pm, packageName, deps, executed,
                   gitRepo>>

\* a variant of onCancel that ends the run with status 1
CancelPrompt_ExitsOne ==
    /\ pc \in {"awaitName", "awaitServer", "awaitTooling"}
    /\ ExitWith(1, <<Log(Msg_Cancelled_nl)>>)
    /\ UNCHANGED <<fnVars, argv, projectName, selectedServer, selectedTooling, skipPrompts,
                   prompted, rootExists, files, pm, packageName, deps, executed, gitRepo>>

\* onCancel of the name, server and tooling prompts
CancelPrompt ==
    /\ pc \in {"awaitName", "awaitServer", "awaitTooling"}
    /\ ExitWith(0, <<Log(Msg_Cancelled_nl)>>)
    /\ UNCHANGED <<fnVars, argv, projectName, selectedServer, selectedTooling, skipPrompts,
                   prompted, rootExists, files, pm, packageName, deps, executed, gitRepo>>

\* a variant that asks for the server whenever none was flagged
ResolveServer_IgnoresYes ==
    /\ pc = "server"
    /\ IF selectedServer = UndefinedKey
       THEN /\ prompted' = Append(prompted, "server")
            /\ pc' = "awaitServer"
       ELSE /\ pc' = "tooling"
            /\ UNCHANGED prompted
    /\ UNCHANGED <<fnVars, argv, projectName, selectedServer, selectedTooling, skipPrompts,
                   output, exitCode, rootExists, files, pm, packageName, deps, executed,
                   gitRepo>>

\* if (!skipPrompts && selectedServer === undefined): the select prompt
ResolveServer ==
    /\ pc = "server"
    /\ IF ~skipPrompts /\ selectedServer = UndefinedKey
       THEN /\ prompted' = Append(prompted, "server")
            /\ pc' = "awaitServer"
       ELSE /\ pc' = "tooling"
            /\ UNCHANGED prompted
    /\ UNCHANGED <<fnVars, argv, projectName, selectedServer, selectedTooling, skipPrompts,
                   output, exitCode, rootExists, files, pm, packageName, deps, executed,
                   gitRepo>>

\* selectedServer = response.server === 'none' ? undefined : response.server
AnswerServer ==
    /\ pc = "awaitServer"
    /\ \E choice \in {"none"} \cup {servers[i].value : i \in DOMAIN servers} :
           selectedServer' = IF choice = "none" THEN UndefinedKey ELSE choice
    /\ pc' = "tooling"
    /\ UNCHANGED <<fnVars, argv, projectName, selectedTooling, skipPrompts, prompted,
                   output, exitCode, rootExists, files, pm, packageName, deps, executed,
                   gitRepo>>

\* if (!skipPrompts && selectedTooling.size === 0): the multiselect prompt
ResolveTooling ==
    /\ pc = "tooling"
    /\ IF ~skipPrompts /\ selectedTooling = {}
       THEN /\ prompted' = Append(prompted, "tooling")
            /\ pc' = "awaitTooling"
       ELSE /\ pc' = "checkName"
            /\ UNCHANGED prompted
    /\ UNCHANGED <<fnVars, argv, projectName, selectedServer, selectedTooling, skipPrompts,
                   output, exitCode, rootExists, files, pm, packageName, deps, executed,
                   gitRepo>>

\* selectedTooling = new Set(response.tooling)
AnswerTooling ==
    /\ pc = "awaitTooling"
    /\ \E chosen \in SUBSET {tooling[i].value : i \in DOMAIN tooling} :
           selectedTooling' = chosen
    /\ pc' = "checkName"
    /\ UNCHANGED <<fnVars, argv, projectName, selectedServer, skipPrompts, prompted,
                   output, exitCode, rootExists, files, pm, packageName, deps, executed,
                   gitRepo>>

\* a variant that goes on with the default name when the name is empty
CheckName_DefaultsEmpty ==
    /\ pc = "checkName"
    /\ packageName' = IF ~Truthy(projectName) THEN toValidPackageName(TsProject)
                      ELSE toValidPackageName(projectName)
    /\ pc' = "directory"
    /\ UNCHANGED <<fnVars, argv, projectName, selectedServer, selectedTooling, skipPrompts,
                   prompted, rootExists, files, pm, deps, executed, gitRepo, exitCode,
                   output>>

\* a variant that normalizes the project name in place
CheckName_NormalizesInPlace ==
    /\ pc = "checkName"
    /\ IF ~Truthy(projectName)
       THEN /\ ExitWith(1, <<Log(Msg_NameRequired)>>)
            /\ UNCHANGED <<packageName, projectName>>
       ELSE /\ packageName' = toValidPackageName(projectName)
            /\ projectName' = toValidPackageName(projectName)
            /\ pc' = "directory"
            /\ UNCHANGED <<exitCode, output>>
    /\ UNCHANGED <<fnVars, argv, selectedServer, selectedTooling, skipPrompts,
                   prompted, rootExists, files, pm, deps, executed, gitRepo>>

\* if (!projectName) exit 1; const packageName = toValidPackageName(projectName)
CheckName ==
    /\ pc = "checkName"
    /\ IF ~Truthy(projectName)
       THEN /\ ExitWith(1, <<Log(Msg_NameRequired)>>)
            /\ UNCHANGED packageName
       ELSE /\ packageName' = toValidPackageName(projectName)
            /\ pc' = "directory"
            /\ UNCHANGED <<exitCode, output>>
    /\ UNCHANGED <<fnVars, argv, projectName, selectedServer, selectedTooling, skipPrompts,
                   prompted, rootExists, files, pm, deps, executed, gitRepo>>

-----------------------------------------------------------------------------
(* index.ts: main(), the scaffolding sequence *)

Msg_DirPrefix ==
    <<"D", "i", "r", "e", "c", "t", "o", "r", "y", " ", "\"">>
Msg_NotEmptyAborting ==
    <<"\"", " ", "i", "s", " ", "n", "o", "t", " ", "e", "m", "p", "t", "y", ".", " ", "A",
      "b", "o", "r", "t", "i", "n", "g", ".">>
Msg_ScaffoldingPrefix ==
    <<"\n", "S", "c", "a", "f", "f", "o", "l", "d", "i", "n", "g", " ", "p", "r", "o", "j",
      "e", "c", "t", " ", "i", "n", " ">>
Msg_Dots ==
    <<".", ".", ".">>
Msg_InitializingPrefix ==
    <<"\n", "I", "n", "i", "t", "i", "a", "l", "i", "z", "i", "n", "g", " ", "p", "r", "o",
      "j", "e", "c", "t", " ", "w", "i", "t", "h", " ">>
Msg_Installing ==
    <<"\n", "I", "n", "s", "t", "a", "l", "l", "i", "n", "g", " ", "d", "e", "p", "e", "n",
      "d", "e", "n", "c", "i", "e", "s", ".", ".", ".">>
Msg_InstallFailed ==
    <<"\n", "F", "a", "i", "l", "e", "d", " ", "t", "o", " ", "i", "n", "s", "t", "a", "l",
      "l", " ", "d", "e", "p", "e", "n", "d", "e", "n", "c", "i", "e", "s", ".">>
Msg_InitGit ==
    <<"\n", "I", "n", "i", "t", "i", "a", "l", "i", "z", "i", "n", "g", " ", "g", "i", "t",
      " ", "r", "e", "p", "o", "s", "i", "t", "o", "r", "y", ".", ".", ".">>
Msg_GitDone ==
    <<"G", "i", "t", " ", "r", "e", "p", "o", "s", "i", "t", "o", "r", "y", " ", "i", "n", "i",
      "t", "i", "a", "l", "i", "z", "e", "d", ".">>
Msg_GitFailed ==
    <<"C", "o", "u", "l", "d", " ", "n", "o", "t", " ", "i", "n", "i", "t", "i", "a", "l", "i",
      "z", "e", " ", "g", "i", "t", " ", "r", "e", "p", "o", "s", "i", "t", "o", "r", "y", ".">>
Msg_Done ==
    <<"\n", "D", "o", "n", "e", "!", " ", "T", "o", " ", "g", "e", "t", " ", "s", "t", "a",
      "r", "t", "e", "d", ":", "\n">>
Msg_CdPrefix ==
    <<" ", " ", "c", "d", " ">>
Msg_Indent ==
    <<" ", " ">>
Msg_NpmRun ==
    <<"n", "p", "m", " ", "r", "u", "n">>
Msg_StartSuffix ==
    <<" ", "s", "t", "a", "r", "t", "\n">>
Msg_ErrorPrefix ==
    <<"E", "r", "r", "o", "r", ":", " ">>
GitInitCommand ==
    <<"g", "i", "t", " ", "i", "n", "i", "t">>
CwdPath ==
    <<"/", "w", "o", "r", "k">>
Str_dot ==
    <<".">>
Str_npm ==
    <<"n", "p", "m">>

\* the characters of a package-manager identifier, as a template literal interpolates it
PmChars(p) ==
    CASE p = "yarn" -> Pfx_yarn
      [] p = "pnpm" -> Pfx_pnpm
      [] p = "bun" -> Pfx_bun
      [] OTHER -> Str_npm

\* path.resolve(process.cwd(), projectName) for the names of the model: plain relative
\* names and "."
ResolveRoot(name) ==
    IF name = Str_dot THEN CwdPath ELSE CwdPath \o <<"/">> \o name

tsconfig ==
    [compilerOptions |->
        [module |-> "es2022", target |-> "esnext", outDir |-> "./dist", rootDir |-> "./src",
         moduleResolution |-> "bundler", types |-> <<"node">>, sourceMap |-> TRUE,
         declaration |-> TRUE, declarationMap |-> TRUE, noUncheckedIndexedAccess |-> TRUE,
         exactOptionalPropertyTypes |-> TRUE, strict |-> TRUE, verbatimModuleSyntax |-> TRUE,
         isolatedModules |-> TRUE, noUncheckedSideEffectImports |-> TRUE,
         moduleDetection |-> "force", skipLibCheck |-> TRUE]]

gitignore ==
    "node_modules\ndist\n.DS_Store\n"

\* the package.json the package manager's init command leaves in the root (the command's
\* effect lies outside the repository: a manifest with a name, a version and a scripts
\* object of its own)
InitManifest ==
    [name |-> "<init>", version |-> "1.0.0", main |-> "index.js",
     scripts |-> ("test" :> "echo \"Error: no test specified\" && exit 1")]

\* fs.writeFileSync(path.join(root, file), content)
WriteFile(fsFiles, file, content) ==
    (file :> content) @@ fsFiles

\* const deps = [...]; the pushes of the selected server's and tools' dependencies
BaseDeps ==
    <<Dep_tsx, Dep_typescript, Dep_types_node, Dep_rimraf>>

RECURSIVE ToolingDepsFrom(_, _)
ToolingDepsFrom(selTooling, i) ==
    IF i > Len(tooling) THEN <<>>
    ELSE (IF tooling[i].value \in selTooling THEN tooling[i].dependencies ELSE <<>>)
         \o ToolingDepsFrom(selTooling, i + 1)

\* a variant that leaves out the dependencies of the selected tools
CollectedDeps_ServerOnly(server, selTooling) ==
    LET serverConfig == IF server # UndefinedKey THEN FindByValue(servers, server) ELSE 0
    IN  IF serverConfig # 0
        THEN BaseDeps \o servers[serverConfig].dependencies
        ELSE BaseDeps

\* a variant that pushes the tools' dependencies in the order of the selection, vitest
\* first
CollectedDeps_VitestFirst(server, selTooling) ==
    LET serverConfig == IF server # UndefinedKey THEN FindByValue(servers, server) ELSE 0
        withServer == IF serverConfig # 0
                      THEN BaseDeps \o servers[serverConfig].dependencies
                      ELSE BaseDeps
    IN  withServer
        \o (IF "vitest" \in selTooling THEN tooling[2].dependencies ELSE <<>>)
        \o (IF "lint" \in selTooling THEN tooling[1].dependencies ELSE <<>>)

CollectedDeps(server, selTooling) ==
    LET serverConfig == IF server # UndefinedKey THEN FindByValue(servers, server) ELSE 0
        withServer == IF serverConfig # 0
                      THEN BaseDeps \o servers[serverConfig].dependencies
                      ELSE BaseDeps
    IN  withServer \o ToolingDepsFrom(selTooling, 1)

\* a variant that takes the yes flag as the answer to the overwrite question
PrepareDirectory_YesOverwrites ==
    /\ pc = "directory"
    /\ IF rootExists
       THEN IF DOMAIN files # {}
            THEN IF skipPrompts
                 THEN /\ files' = <<>>
                      /\ pc' = "detect"
                      /\ UNCHANGED <<exitCode, output, prompted, rootExists>>
                 ELSE /\ prompted' = Append(prompted, "overwrite")
                      /\ pc' = "awaitOverwrite"
                      /\ UNCHANGED <<exitCode, output, rootExists, files>>
            ELSE /\ pc' = "detect"
                 /\ UNCHANGED <<exitCode, output, prompted, rootExists, files>>
       ELSE /\ rootExists' = TRUE
            /\ pc' = "detect"
            /\ UNCHANGED <<exitCode, output, prompted, files>>
    /\ UNCHANGED <<fnVars, argv, projectName, selectedServer, selectedTooling, skipPrompts,
                   pm, packageName, deps, executed, gitRepo>>

\* if (fs.existsSync(root)) { ... } else { fs.mkdirSync(root, { recursive: true }) }
PrepareDirectory ==
    /\ pc = "directory"
    /\ IF rootExists
       THEN IF DOMAIN files # {}
            THEN IF skipPrompts
                 THEN /\ ExitWith(1, <<Log(Msg_DirPrefix \o projectName \o Msg_NotEmptyAborting)>>)
                      /\ UNCHANGED <<prompted, rootExists>>
                 ELSE /\ prompted' = Append(prompted, "overwrite")
                      /\ pc' = "awaitOverwrite"
                      /\ UNCHANGED <<exitCode, output, rootExists>>
            ELSE /\ pc' = "detect"
                 /\ UNCHANGED <<exitCode, output, prompted, rootExists>>
       ELSE /\ rootExists' = TRUE
            /\ pc' = "detect"
            /\ UNCHANGED <<exitCode, output, prompted>>
    /\ UNCHANGED <<fnVars, argv, projectName, selectedServer, selectedTooling, skipPrompts,
                   files, pm, packageName, deps, executed, gitRepo>>

\* a variant that removes the entries before it looks at the answer
AnswerOverwrite_RemovesFirst ==
    /\ pc = "awaitOverwrite"
    /\ files' = <<>>
    /\ \E overwrite \in {"true", "false", UndefinedKey} :
           IF overwrite # "true"
           THEN ExitWith(0, <<Log(Msg_Cancelled)>>)
           ELSE /\ pc' = "detect"
                /\ UNCHANGED <<exitCode, output>>
    /\ UNCHANGED <<fnVars, argv, projectName, selectedServer, selectedTooling, skipPrompts,
                   prompted, rootExists, pm, packageName, deps, executed, gitRepo>>

\* the confirm prompt, which has no onCancel: a cancelled prompt gives overwrite undefined;
\* if (!overwrite) exit 0; otherwise every listed entry is removed
AnswerOverwrite ==
    /\ pc = "awaitOverwrite"
    /\ \E overwrite \in {"true", "false", UndefinedKey} :
           IF overwrite # "true"
           THEN /\ ExitWith(0, <<Log(Msg_Cancelled)>>)
                /\ UNCHANGED files
           ELSE /\ files' = <<>>
                /\ pc' = "detect"
                /\ UNCHANGED <<exitCode, output>>
    /\ UNCHANGED <<fnVars, argv, projectName, selectedServer, selectedTooling, skipPrompts,
                   prompted, rootExists, pm, packageName, deps, executed, gitRepo>>

\* const pm = detectPackageManager() and the two console.log lines
DetectPackageManager ==
    /\ pc = "detect"
    /\ \E userAgent \in UserAgents :
           LET detected == detectPackageManager(userAgent)
           IN  /\ pm' = detected
               /\ output' = output \o
                     << Log(Msg_ScaffoldingPrefix \o ResolveRoot(projectName) \o Msg_Dots),
                        Log(Msg_InitializingPrefix \o PmChars(detected) \o Msg_Dots) >>
    /\ pc' = "init"
    /\ UNCHANGED <<fnVars, argv, projectName, selectedServer, selectedTooling, skipPrompts,
                   prompted, exitCode, rootExists, files, packageName, deps, executed,
                   gitRepo>>

\* a variant of the catch handler that ends the run with status 0
Uncaught_ExitZero(what) ==
    ExitWith(0, <<Err(Msg_ErrorPrefix \o what)>>)

\* an exception that reaches main().catch: console.error(err); process.exit(1)
Uncaught(what) ==
    ExitWith(1, <<Err(Msg_ErrorPrefix \o what)>>)

\* execSync(getInitCommand(pm), { cwd: root }): the command leaves package.json, or fails
\* and execSync throws
RunInit ==
    /\ pc = "init"
    /\ executed' = Append(executed, getInitCommand(pm))
    /\ \E ok \in BOOLEAN :
           IF ok
           THEN /\ files' = WriteFile(files, "package.json", InitManifest)
                /\ pc' = "updatePackage"
                /\ UNCHANGED <<exitCode, output>>
           ELSE /\ Uncaught(getInitCommand(pm))
                /\ UNCHANGED files
    /\ UNCHANGED <<fnVars, argv, projectName, selectedServer, selectedTooling, skipPrompts,
                   prompted, rootExists, pm, packageName, deps, gitRepo>>

\* a variant that adds the generated scripts to the ones the init command left
UpdatePackageJson_MergeScripts ==
    /\ pc = "updatePackage"
    /\ LET pkg == files["package.json"]
           pkg1 == SetKey(pkg, "name", packageName)
           pkg2 == SetKey(pkg1, "type", "module")
           pkg3 == SetKey(pkg2, "scripts",
                          getScripts(selectedServer, selectedTooling) @@ pkg.scripts)
       IN  files' = WriteFile(files, "package.json", pkg3)
    /\ pc' = "collect"
    /\ UNCHANGED <<fnVars, argv, projectName, selectedServer, selectedTooling, skipPrompts,
                   prompted, output, exitCode, rootExists, pm, packageName, deps, executed,
                   gitRepo>>

\* pkg = JSON.parse(read); pkg.name, pkg.type, pkg.scripts are set; the file is rewritten
UpdatePackageJson ==
    /\ pc = "updatePackage"
    /\ LET pkg == files["package.json"]
           pkg1 == SetKey(pkg, "name", packageName)
           pkg2 == SetKey(pkg1, "type", "module")
           pkg3 == SetKey(pkg2, "scripts", getScripts(selectedServer, selectedTooling))
       IN  files' = WriteFile(files, "package.json", pkg3)
    /\ pc' = "collect"
    /\ UNCHANGED <<fnVars, argv, projectName, selectedServer, selectedTooling, skipPrompts,
                   prompted, output, exitCode, rootExists, pm, packageName, deps, executed,
                   gitRepo>>

\* a variant that goes on to the file writes without installing
CollectDependencies_WritesFirst ==
    /\ pc = "collect"
    /\ deps' = CollectedDeps(selectedServer, selectedTooling)
    /\ output' = Append(output, Log(Msg_Installing))
    /\ pc' = "tsconfig"
    /\ UNCHANGED <<fnVars, argv, projectName, selectedServer, selectedTooling, skipPrompts,
                   prompted, exitCode, rootExists, files, pm, packageName, executed,
                   gitRepo>>

\* Collect dependencies
CollectDependencies ==
    /\ pc = "collect"
    /\ deps' = CollectedDeps(selectedServer, selectedTooling)
    /\ output' = Append(output, Log(Msg_Installing))
    /\ pc' = "install"
    /\ UNCHANGED <<fnVars, argv, projectName, selectedServer, selectedTooling, skipPrompts,
                   prompted, exitCode, rootExists, files, pm, packageName, executed,
                   gitRepo>>

\* a variant that runs the add command a second time after a failure
InstallDependencies_RetriesOnce ==
    /\ pc = "install"
    /\ executed' = Append(executed, getAddCommand(pm, deps))
    /\ \E ok \in BOOLEAN :
           IF ok
           THEN /\ files' = WriteFile(files, "package.json",
                                SetKey(files["package.json"], "dependencies", Range(deps)))
                /\ pc' = "tsconfig"
                /\ UNCHANGED <<exitCode, output>>
           ELSE IF Len(executed) < 2
           THEN UNCHANGED <<pc, exitCode, output, files>>
           ELSE /\ ExitWith(1, <<Log(Msg_InstallFailed)>>)
                /\ UNCHANGED files
    /\ UNCHANGED <<fnVars, argv, projectName, selectedServer, selectedTooling, skipPrompts,
                   prompted, rootExists, pm, packageName, deps, gitRepo>>

\* a variant that reports a failing install and goes on
InstallDependencies_FailureGoesOn ==
    /\ pc = "install"
    /\ executed' = Append(executed, getAddCommand(pm, deps))
    /\ \E ok \in BOOLEAN :
           IF ok
           THEN /\ files' = WriteFile(files, "package.json",
                                SetKey(files["package.json"], "dependencies", Range(deps)))
                /\ UNCHANGED output
           ELSE /\ output' = Append(output, Log(Msg_InstallFailed))
                /\ UNCHANGED files
    /\ pc' = "tsconfig"
    /\ UNCHANGED <<fnVars, argv, projectName, selectedServer, selectedTooling, skipPrompts,
                   prompted, exitCode, rootExists, pm, packageName, deps, gitRepo>>

\* try { execSync(getAddCommand(pm, deps)) } catch { log; process.exit(1) }: on success
\* the package manager has recorded the dependencies in package.json
InstallDependencies ==
    /\ pc = "install"
    /\ executed' = Append(executed, getAddCommand(pm, deps))
    /\ \E ok \in BOOLEAN :
           IF ok
           THEN /\ files' = WriteFile(files, "package.json",
                                SetKey(files["package.json"], "dependencies", Range(deps)))
                /\ pc' = "tsconfig"
                /\ UNCHANGED <<exitCode, output>>
           ELSE /\ ExitWith(1, <<Log(Msg_InstallFailed)>>)
                /\ UNCHANGED files
    /\ UNCHANGED <<fnVars, argv, projectName, selectedServer, selectedTooling, skipPrompts,
                   prompted, rootExists, pm, packageName, deps, gitRepo>>

\* Create tsconfig.json
WriteTsconfig ==
    /\ pc = "tsconfig"
    /\ files' = WriteFile(files, "tsconfig.json", tsconfig)
    /\ pc' = "index"
    /\ UNCHANGED <<fnVars, argv, projectName, selectedServer, selectedTooling, skipPrompts,
                   prompted, output, exitCode, rootExists, pm, packageName, deps, executed,
                   gitRepo>>

\* Create src/index.ts
WriteIndex ==
    /\ pc = "index"
    /\ files' = WriteFile(files, "src/index.ts", getIndexTemplate(selectedServer))
    /\ pc' = "lintFiles"
    /\ UNCHANGED <<fnVars, argv, projectName, selectedServer, selectedTooling, skipPrompts,
                   prompted, output, exitCode, rootExists, pm, packageName, deps, executed,
                   gitRepo>>

\* a variant that writes the lint configs whatever the selection
WriteLintConfigs_Always ==
    /\ pc = "lintFiles"
    /\ files' = WriteFile(WriteFile(files, "eslint.config.js", eslintConfig),
                          ".prettierrc", prettierConfigFile)
    /\ pc' = "testFiles"
    /\ UNCHANGED <<fnVars, argv, projectName, selectedServer, selectedTooling, skipPrompts,
                   prompted, output, exitCode, rootExists, pm, packageName, deps, executed,
                   gitRepo>>

\* Create ESLint and Prettier configs if lint feature is selected
WriteLintConfigs ==
    /\ pc = "lintFiles"
    /\ files' = IF "lint" \in selectedTooling
                THEN WriteFile(WriteFile(files, "eslint.config.js", eslintConfig),
                               ".prettierrc", prettierConfigFile)
                ELSE files
    /\ pc' = "testFiles"
    /\ UNCHANGED <<fnVars, argv, projectName, selectedServer, selectedTooling, skipPrompts,
                   prompted, output, exitCode, rootExists, pm, packageName, deps, executed,
                   gitRepo>>

\* Create example test file if vitest is selected
WriteVitestExample ==
    /\ pc = "testFiles"
    /\ files' = IF "vitest" \in selectedTooling
                THEN WriteFile(files, "src/example.test.ts", vitestExample)
                ELSE files
    /\ pc' = "git"
    /\ UNCHANGED <<fnVars, argv, projectName, selectedServer, selectedTooling, skipPrompts,
                   prompted, output, exitCode, rootExists, pm, packageName, deps, executed,
                   gitRepo>>

\* a variant in which a failing git init ends the run
InitializeGit_FailureFatal ==
    /\ pc = "git"
    /\ executed' = Append(executed, GitInitCommand)
    /\ \E outcome \in {"ok", "gitFails", "writeFails"} :
           /\ gitRepo' = (outcome # "gitFails")
           /\ files' = IF outcome = "ok" THEN WriteFile(files, ".gitignore", gitignore)
                       ELSE files
           /\ IF outcome = "gitFails"
              THEN ExitWith(1, <<Log(Msg_InitGit), Log(Msg_GitFailed)>>)
              ELSE /\ output' = output \o
                         << Log(Msg_InitGit),
                            IF outcome = "ok" THEN Log(Msg_GitDone) ELSE Log(Msg_GitFailed) >>
                   /\ pc' = "finish"
                   /\ UNCHANGED exitCode
    /\ UNCHANGED <<fnVars, argv, projectName, selectedServer, selectedTooling, skipPrompts,
                   prompted, rootExists, pm, packageName, deps>>

\* a variant that writes .gitignore whatever became of git init
InitializeGit_AlwaysIgnore ==
    /\ pc = "git"
    /\ executed' = Append(executed, GitInitCommand)
    /\ \E outcome \in {"ok", "gitFails", "writeFails"} :
           /\ gitRepo' = (outcome # "gitFails")
           /\ files' = WriteFile(files, ".gitignore", gitignore)
           /\ output' = output \o
                 << Log(Msg_InitGit),
                    IF outcome = "ok" THEN Log(Msg_GitDone) ELSE Log(Msg_GitFailed) >>
    /\ pc' = "finish"
    /\ UNCHANGED <<fnVars, argv, projectName, selectedServer, selectedTooling, skipPrompts,
                   prompted, exitCode, rootExists, pm, packageName, deps>>

\* try { execSync('git init'); write .gitignore; log } catch { log }: git init may fail,
\* and so may the write after it; either way the catch block logs and the run goes on
InitializeGit ==
    /\ pc = "git"
    /\ executed' = Append(executed, GitInitCommand)
    /\ \E outcome \in {"ok", "gitFails", "writeFails"} :
           /\ gitRepo' = (outcome # "gitFails")
           /\ files' = IF outcome = "ok" THEN WriteFile(files, ".gitignore", gitignore)
                       ELSE files
           /\ output' = output \o
                 << Log(Msg_InitGit),
                    IF outcome = "ok" THEN Log(Msg_GitDone) ELSE Log(Msg_GitFailed) >>
    /\ pc' = "finish"
    /\ UNCHANGED <<fnVars, argv, projectName, selectedServer, selectedTooling, skipPrompts,
                   prompted, exitCode, rootExists, pm, packageName, deps>>

\* a variant whose start instruction is '<pm> run start' for every package manager
Finish_AlwaysRun ==
    /\ pc = "finish"
    /\ output' = output \o <<Log(Msg_Done)>>
                  \o (IF ResolveRoot(projectName) # CwdPath
                      THEN <<Log(Msg_CdPrefix \o projectName)>>
                      ELSE <<>>)
                  \o <<Log(Msg_Indent \o PmChars(pm) \o <<" ", "r", "u", "n">>
                           \o Msg_StartSuffix)>>
    /\ pc' = "done"
    /\ exitCode' = Exit(0)
    /\ UNCHANGED <<fnVars, argv, projectName, selectedServer, selectedTooling, skipPrompts,
                   prompted, rootExists, files, pm, packageName, deps, executed, gitRepo>>

\* the closing lines; main() returns and the process ends with status 0
Finish ==
    /\ pc = "finish"
    /\ output' = output \o <<Log(Msg_Done)>>
                  \o (IF ResolveRoot(projectName) # CwdPath
                      THEN <<Log(Msg_CdPrefix \o projectName)>>
                      ELSE <<>>)
                  \o <<Log(Msg_Indent \o (IF pm = "npm" THEN Msg_NpmRun ELSE PmChars(pm))
                           \o Msg_StartSuffix)>>
    /\ pc' = "done"
    /\ exitCode' = Exit(0)
    /\ UNCHANGED <<fnVars, argv, projectName, selectedServer, selectedTooling, skipPrompts,
                   prompted, rootExists, files, pm, packageName, deps, executed, gitRepo>>

\* a file-system call outside any try block throws (mkdirSync of a missing root, an
\* rmSync after the overwrite was confirmed, readFileSync, JSON.parse, writeFileSync) and
\* the exception reaches main().catch; a write that throws has written nothing, an rmSync
\* that throws leaves the entries the loop had not yet removed
FileSystemFailure ==
    /\ pc \in {"directory", "awaitOverwrite", "updatePackage", "tsconfig", "index",
                "lintFiles", "testFiles"}
    /\ pc = "directory" => ~rootExists
    /\ pc = "lintFiles" => "lint" \in selectedTooling
    /\ pc = "testFiles" => "vitest" \in selectedTooling
    /\ Uncaught(<<"f", "s">>)
    /\ IF pc = "awaitOverwrite"
       THEN \E kept \in SUBSET (DOMAIN files) \ {{}} :
                files' = [file \in kept |-> files[file]]
       ELSE UNCHANGED files
    /\ UNCHANGED <<fnVars, argv, projectName, selectedServer, selectedTooling, skipPrompts,
                   prompted, rootExists, pm, packageName, deps, executed, gitRepo>>

Next ==
    \/ ParseArguments
    \/ ResolveName
    \/ AnswerName
    \/ CancelPrompt
    \/ ResolveServer
    \/ AnswerServer
    \/ ResolveTooling
    \/ AnswerTooling
    \/ CheckName
    \/ PrepareDirectory
    \/ AnswerOverwrite
    \/ DetectPackageManager
    \/ RunInit
    \/ UpdatePackageJson
    \/ CollectDependencies
    \/ InstallDependencies
    \/ WriteTsconfig
    \/ WriteIndex
    \/ WriteLintConfigs
    \/ WriteVitestExample
    \/ InitializeGit
    \/ Finish
    \/ FileSystemFailure

Spec ==
    Init /\ [][Next]_vars

\* the steps that wait for the user: a prompt is answered or cancelled
PromptSteps ==
    \/ AnswerName
    \/ CancelPrompt
    \/ AnswerServer
    \/ AnswerTooling
    \/ AnswerOverwrite

\* the steps that wait for an external command: execSync returns or throws
CommandSteps ==
    \/ RunInit
    \/ InstallDependencies
    \/ InitializeGit

\* the synchronous statements of main() between the awaits and the commands, the name
\* check apart
ProgramSteps ==
    \/ ParseArguments
    \/ ResolveName
    \/ ResolveServer
    \/ ResolveTooling
    \/ PrepareDirectory
    \/ DetectPackageManager
    \/ UpdatePackageJson
    \/ CollectDependencies
    \/ WriteTsconfig
    \/ WriteIndex
    \/ WriteLintConfigs
    \/ WriteVitestExample
    \/ Finish
    \/ FileSystemFailure

\* main() when every prompt is eventually answered or cancelled, every external command
\* eventually returns or fails, and main() itself goes on whenever it can: weak fairness
\* of each group of steps; the name check, the one step enabled at its position, is stated
\* by its position being left again and again
SpecLive ==
    /\ Init
    /\ [][Next]_vars
    /\ WF_vars(PromptSteps)
    /\ WF_vars(CommandSteps)
    /\ WF_vars(ProgramSteps)
    /\ []<>(pc # "checkName")

-----------------------------------------------------------------------------
(* Properties of package-manager.ts *)

C1_Npm ==
    <<"n", "p", "m", " ", "i", "n", "i", "t", " ", "-", "y">>
C1_Yarn ==
    <<"y", "a", "r", "n", " ", "i", "n", "i", "t", " ", "-", "y">>
C1_Pnpm ==
    <<"p", "n", "p", "m", " ", "i", "n", "i", "t">>
C1_Bun ==
    <<"b", "u", "n", " ", "i", "n", "i", "t", " ", "-", "y">>
C2_Npm ==
    <<"n", "p", "m", " ", "i", "n", "s", "t", "a", "l", "l">>
C2_Yarn ==
    <<"y", "a", "r", "n", " ", "a", "d", "d">>
C2_Pnpm ==
    <<"p", "n", "p", "m", " ", "a", "d", "d">>
C2_Bun ==
    <<"b", "u", "n", " ", "a", "d", "d">>

C1_Table(p) ==
    CASE p = "npm" -> C1_Npm
      [] p = "yarn" -> C1_Yarn
      [] p = "pnpm" -> C1_Pnpm
      [] p = "bun" -> C1_Bun

\* C1: getInitCommand maps npm, yarn, pnpm and bun to 'npm init -y', 'yarn init -y',
\* 'pnpm init' and 'bun init -y', character for character.
Thm_C1_InitCommandTable ==
    (call.fn = "getInitCommand" /\ ret.done) => ret.value = C1_Table(call.pm)

Wit_C1_BunInit ==
    call.fn = "getInitCommand" /\ ret.done /\ call.pm = "bun" /\ ret.value = C1_Bun

C2_Prefix(p) ==
    CASE p = "npm" -> C2_Npm
      [] p = "yarn" -> C2_Yarn
      [] p = "pnpm" -> C2_Pnpm
      [] p = "bun" -> C2_Bun

\* the names one after the other, a single space between neighbours
RECURSIVE C2_SpaceJoined(_)
C2_SpaceJoined(ds) ==
    IF ds = <<>> THEN <<>>
    ELSE IF Len(ds) = 1 THEN ds[1]
    ELSE ds[1] \o <<" ">> \o C2_SpaceJoined(Tail(ds))

\* the words of a string, cut at every space
RECURSIVE C2_Words(_, _)
C2_Words(str, word) ==
    IF str = <<>> THEN <<word>>
    ELSE IF Head(str) = " " THEN <<word>> \o C2_Words(Tail(str), <<>>)
    ELSE C2_Words(Tail(str), Append(word, Head(str)))

\* C2: getAddCommand(pm, deps) is the prefix of pm ('npm install', 'yarn add', 'pnpm add',
\* 'bun add'), one space, and the names of deps joined by single spaces in input order:
\* cutting what follows the prefix at its spaces gives deps back, nothing added,
\* dropped or reordered.
Thm_C2_AddCommand ==
    (call.fn = "getAddCommand" /\ ret.done) =>
        LET prefix == C2_Prefix(call.pm)
            rest == SubSeq(ret.value, Len(prefix) + 2, Len(ret.value))
        IN  /\ ret.value = prefix \o <<" ">> \o C2_SpaceJoined(call.deps)
            /\ call.deps # <<>> => C2_Words(rest, <<>>) = call.deps

Wit_C2_ThreeDeps ==
    /\ call.fn = "getAddCommand" /\ ret.done
    /\ call.pm = "pnpm"
    /\ call.deps = <<Dep_express, Dep_tsx, Dep_types_node>>
    /\ ret.value = C2_Pnpm \o <<" ">> \o Dep_express \o <<" ">> \o Dep_tsx \o <<" ">>
                      \o Dep_types_node

\* the user agent is set and its first characters spell the name
C11_BeginsWith(userAgent, name) ==
    /\ userAgent # UndefinedStr
    /\ Len(userAgent) >= Len(name)
    /\ \A i \in 1..Len(name) : userAgent[i] = name[i]

\* C11: detectPackageManager returns yarn, pnpm or bun exactly when the value of
\* npm_config_user_agent starts with that name, and npm in every other case (unset,
\* empty, or starting with anything else).
Thm_C11_DetectPackageManager ==
    (call.fn = "detectPackageManager" /\ ret.done) =>
        LET ua == call.userAgent
        IN  /\ ret.value = "yarn" <=> C11_BeginsWith(ua, <<"y", "a", "r", "n">>)
            /\ ret.value = "pnpm" <=> C11_BeginsWith(ua, <<"p", "n", "p", "m">>)
            /\ ret.value = "bun" <=> C11_BeginsWith(ua, <<"b", "u", "n">>)
            /\ ret.value \in {"npm", "yarn", "pnpm", "bun"}

Wit_C11_Pnpm ==
    /\ call.fn = "detectPackageManager" /\ ret.done
    /\ call.userAgent = <<"p", "n", "p", "m", "/", "8", ".", "0", ".", "0">>
    /\ ret.value = "pnpm"

Wit_C11_Unset ==
    /\ call.fn = "detectPackageManager" /\ ret.done
    /\ call.userAgent = UndefinedStr
    /\ ret.value = "npm"

-----------------------------------------------------------------------------
(* Properties of args.ts *)

\* C5: toValidPackageName is idempotent: normalizing its result again returns the
\* result unchanged.
Thm_C5_Idempotent ==
    (call.fn = "toValidPackageName" /\ ret.done /\ ret.again) => ret.value = ret.first

Wit_C5_NormalizedTwice ==
    /\ call.fn = "toValidPackageName" /\ ret.done /\ ret.again
    /\ call.name = <<".", ".", "B", "!">>
    /\ ret.first = <<"-", "b", "-">>

C6_Min(S) ==
    CHOOSE x \in S : \A y \in S : x <= y

C6_Max(S) ==
    CHOOSE x \in S : \A y \in S : x >= y

\* s without its leading and trailing whitespace
C6_Trimmed(s) ==
    LET solid == {i \in DOMAIN s : s[i] \notin Whitespace}
    IN  IF solid = {} THEN <<>> ELSE SubSeq(s, C6_Min(solid), C6_Max(solid))

C6_Lowered(s) ==
    [i \in DOMAIN s |->
        IF \E j \in DOMAIN UpperLetters : s[i] = UpperLetters[j]
        THEN LowerLetters[CHOOSE j \in DOMAIN UpperLetters : s[i] = UpperLetters[j]]
        ELSE s[i]]

\* s with each maximal run of characters satisfying InRun replaced by one hyphen: a
\* character of a run that follows another one of the run is dropped, the first becomes "-"
RECURSIVE C6_Collapsed(_, _, _)
C6_Collapsed(s, InRun(_), i) ==
    IF i > Len(s) THEN <<>>
    ELSE IF ~InRun(s[i]) THEN <<s[i]>> \o C6_Collapsed(s, InRun, i + 1)
    ELSE IF i > 1 /\ InRun(s[i - 1]) THEN C6_Collapsed(s, InRun, i + 1)
    ELSE <<"-">> \o C6_Collapsed(s, InRun, i + 1)

C6_IsWhitespace(c) ==
    c \in Whitespace

C6_IsDisallowed(c) ==
    ~(\/ \E j \in DOMAIN LowerLetters : c = LowerLetters[j]
      \/ c \in Digits
      \/ c \in {"-", "~"})

C6_Pipeline(name) ==
    LET s1 == C6_Trimmed(name)
        s2 == C6_Lowered(s1)
        s3 == C6_Collapsed(s2, C6_IsWhitespace, 1)
        s4 == IF s3 # <<>> /\ s3[1] \in {".", "_"} THEN SubSeq(s3, 2, Len(s3)) ELSE s3
    IN  C6_Collapsed(s4, C6_IsDisallowed, 1)

C6_HasDoubleHyphen(s) ==
    \E i \in 1..(Len(s) - 1) : s[i] = "-" /\ s[i + 1] = "-"

\* inside the trimmed, lower-cased name a disallowed character other than whitespace,
\* which is not the leading "." or "_" that is removed, stands next to whitespace
C6_DisallowedNextToSpace(name) ==
    LET t == C6_Lowered(C6_Trimmed(name))
        Bad(i) == /\ C6_IsDisallowed(t[i])
                  /\ ~C6_IsWhitespace(t[i])
                  /\ ~(i = 1 /\ t[i] \in {".", "_"})
    IN  \E i \in 1..(Len(t) - 1) :
            \/ Bad(i) /\ C6_IsWhitespace(t[i + 1])
            \/ C6_IsWhitespace(t[i]) /\ Bad(i + 1)

\* C6: toValidPackageName trims, lower-cases, replaces each maximal whitespace run by
\* one hyphen, removes one leading "." or "_", and replaces each maximal run of characters
\* outside [a-z0-9-~] by one hyphen, in this order; so a disallowed character that
\* stands next to whitespace inside the name yields two consecutive hyphens.
Thm_C6_StepOrder ==
    (call.fn = "toValidPackageName" /\ ret.done /\ ~ret.again) =>
        /\ ret.value = C6_Pipeline(call.name)
        /\ C6_DisallowedNextToSpace(call.name) => C6_HasDoubleHyphen(ret.value)

Wit_C6_BangSpace ==
    /\ call.fn = "toValidPackageName" /\ ret.done /\ ~ret.again
    /\ call.name = <<"B", "!", " ", "a">>
    /\ ret.value = <<"b", "-", "-", "a">>

C9_Has(args, flags) ==
    \E i \in DOMAIN args : args[i] \in flags

C9_ServerFlagPositions(args) ==
    {i \in DOMAIN args :
        args[i] \in {Arg_express, Arg_e, Arg_fastify, Arg_f, Arg_hono, Arg_h}}

C9_Positionals(args) ==
    {i \in DOMAIN args : args[i] = <<>> \/ args[i][1] # "-"}

\* C9: for an argument list with at most one server flag, parseArgs returns (without
\* exiting) server = the flagged key, the long flag and its shorthand alike, or undefined;
\* tooling = exactly the flagged tooling keys; yes = TRUE iff --yes or -y is present;
\* projectName = the positional argument, or undefined when there is none.
Thm_C9_ParseArgs ==
    (call.fn = "parseArgs" /\ ret.done /\ Cardinality(C9_ServerFlagPositions(call.args)) <= 1) =>
        LET a == call.args
            r == ret.value.result
        IN  /\ ret.value.exit = NoExit
            /\ ret.value.stderr = <<>>
            /\ r.server = (IF C9_Has(a, {Arg_express, Arg_e}) THEN "express"
                           ELSE IF C9_Has(a, {Arg_fastify, Arg_f}) THEN "fastify"
                           ELSE IF C9_Has(a, {Arg_hono, Arg_h}) THEN "hono"
                           ELSE UndefinedKey)
            /\ r.tooling = {k \in ToolingKeys :
                               \/ k = "lint" /\ C9_Has(a, {Arg_lint, Arg_l})
                               \/ k = "vitest" /\ C9_Has(a, {Arg_vitest, Arg_t})}
            /\ r.yes = C9_Has(a, {Arg_yes, Arg_y})
            /\ C9_Positionals(a) = {} => r.projectName = UndefinedStr
            /\ \A i \in C9_Positionals(a) :
                   C9_Positionals(a) = {i} => r.projectName = a[i]

Wit_C9_ShortHonoNameLint ==
    /\ call.fn = "parseArgs" /\ ret.done
    /\ call.args = <<Arg_h, Arg_MyApi, Arg_l>>
    /\ ret.value.result = [projectName |-> Arg_MyApi, server |-> "hono",
                            tooling |-> {"lint"}, yes |-> FALSE]
-----------------------------------------------------------------------------
(* Properties of templates.ts, observed on the files main() writes *)

\* C3: getIndexTemplate returns exactly the default template when no server is given, and
\* for each server key exactly the template of the registry entry with that key, never
\* the template of another key nor the default (read off src/index.ts as written).
Thm_C3_IndexTemplate ==
    "src/index.ts" \in DOMAIN files =>
        LET written == files["src/index.ts"]
        IN  /\ selectedServer \in ServerKeys \cup {UndefinedKey}
            /\ selectedServer = UndefinedKey => written = defaultTemplate
            /\ \A i \in DOMAIN servers :
                   servers[i].value = selectedServer =>
                       /\ written = servers[i].template
                       /\ written # defaultTemplate
                       /\ \A j \in DOMAIN servers \ {i} : written # servers[j].template

Wit_C3_HonoIndex ==
    /\ "src/index.ts" \in DOMAIN files
    /\ selectedServer = "hono"
    /\ files["src/index.ts"] = HonoTemplate

\* the package.json of the root has been through the manifest mutation
C4_ManifestUpdated ==
    /\ "package.json" \in DOMAIN files
    /\ "type" \in DOMAIN files["package.json"]

\* C4: the keys of getScripts are exactly start and build, plus dev iff a server is
\* selected, plus lint, lint:fix and format iff lint is selected, plus test and test:run
\* iff vitest is selected, and every key holds the command of its own group (read off
\* the scripts of the rewritten package.json).
Thm_C4_ScriptKeys ==
    C4_ManifestUpdated =>
        LET scripts == files["package.json"].scripts
        IN  /\ DOMAIN scripts =
                   {"start", "build"}
                   \cup (IF selectedServer # UndefinedKey THEN {"dev"} ELSE {})
                   \cup (IF "lint" \in selectedTooling THEN {"lint", "lint:fix", "format"} ELSE {})
                   \cup (IF "vitest" \in selectedTooling THEN {"test", "test:run"} ELSE {})
            /\ scripts["start"] = "tsx watch ./src/index.ts"
            /\ scripts["build"] = "rimraf ./dist && tsc"
            /\ "dev" \in DOMAIN scripts => scripts["dev"] = "tsx watch ./src/index.ts"
            /\ "lint" \in DOMAIN scripts =>
                   /\ scripts["lint"] = "eslint src/"
                   /\ scripts["lint:fix"] = "eslint src/ --fix"
                   /\ scripts["format"] = "prettier --write src/"
            /\ "test" \in DOMAIN scripts =>
                   /\ scripts["test"] = "vitest"
                   /\ scripts["test:run"] = "vitest run"

Wit_C4_AllGroups ==
    /\ C4_ManifestUpdated
    /\ selectedServer = "fastify"
    /\ selectedTooling = {"lint", "vitest"}
    /\ DOMAIN files["package.json"].scripts =
           {"start", "build", "dev", "lint", "lint:fix", "format", "test", "test:run"}

-----------------------------------------------------------------------------
(* Properties of main() *)

C7_Message ==
    <<"C", "a", "n", "n", "o", "t", " ", "s", "e", "l", "e", "c", "t", " ", "m", "u", "l", "t",
      "i", "p", "l", "e", " ", "w", "e", "b", " ", "s", "e", "r", "v", "e", "r", "s">>

C7_Contains(text, part) ==
    \E i \in 1..(Len(text) - Len(part) + 1) : SubSeq(text, i, i + Len(part) - 1) = part

C7_ServerFlagCount ==
    Cardinality({i \in DOMAIN argv : argv[i] \in ServerFlags})

\* C7: at most one server is ever selected: once an argument list with more than one
\* server-flag occurrence has been parsed, an error containing 'Cannot select multiple
\* web servers' has been printed, the run has exited with code 1, the record parseArgs
\* returns carries no server, and no server is selected, no prompt issued and no command
\* run; in every state the selected server is none or one key of the registry.
Thm_C7_AtMostOneServer ==
    /\ selectedServer \in ServerKeys \cup {UndefinedKey}
    /\ (pc # "start" /\ C7_ServerFlagCount > 1) =>
           /\ pc = "exited"
           /\ exitCode = Exit(1)
           /\ \E i \in DOMAIN output :
                  output[i].stream = "error" /\ C7_Contains(output[i].text, C7_Message)
           /\ parseArgs(argv).result.server = UndefinedKey
           /\ selectedServer = UndefinedKey
           /\ prompted = <<>>
           /\ executed = <<>>

Wit_C7_TwoShorthands ==
    /\ argv = <<Arg_h, Arg_e>>
    /\ pc = "exited"
    /\ exitCode = Exit(1)

\* the dependency list of the registry entry with the given key, empty without such an entry
C8_DepsOf(registry, key) ==
    IF \E i \in DOMAIN registry : registry[i].value = key
    THEN registry[CHOOSE i \in DOMAIN registry : registry[i].value = key].dependencies
    ELSE <<>>

\* C8: the dependency list passed to the add command is the base list [tsx, typescript,
\* @types/node, rimraf], then the selected server's list, then the lint list if lint is
\* selected, then the vitest list if vitest is selected, whatever the order of the flags;
\* nothing of an unselected feature is in it.
Thm_C8_DependencyList ==
    Len(executed) >= 2 =>
        LET expected ==
                <<Dep_tsx, Dep_typescript, Dep_types_node, Dep_rimraf>>
                \o C8_DepsOf(servers, selectedServer)
                \o (IF "lint" \in selectedTooling THEN C8_DepsOf(tooling, "lint") ELSE <<>>)
                \o (IF "vitest" \in selectedTooling THEN C8_DepsOf(tooling, "vitest") ELSE <<>>)
        IN  /\ deps = expected
            /\ executed[2] = C2_Prefix(pm) \o <<" ">> \o C2_SpaceJoined(expected)
            /\ \A i \in DOMAIN servers :
                   servers[i].value # selectedServer =>
                       \A d \in Range(servers[i].dependencies) : d \notin Range(deps)
            /\ \A i \in DOMAIN tooling :
                   tooling[i].value \notin selectedTooling =>
                       \A d \in Range(tooling[i].dependencies) : d \notin Range(deps)

Wit_C8_VitestFlagFirst ==
    /\ argv = <<Arg_t, Arg_lint, Arg_express>>
    /\ Len(executed) >= 2
    /\ deps = <<Dep_tsx, Dep_typescript, Dep_types_node, Dep_rimraf, Dep_express,
                 Dep_types_express, Dep_eslint, Dep_prettier, Dep_eslint_js,
                 Dep_typescript_eslint, Dep_eslint_config_prettier,
                 Dep_eslint_plugin_prettier, Dep_vitest>>

C10_DefaultName ==
    <<"t", "s", "-", "p", "r", "o", "j", "e", "c", "t">>

C10_Parsed ==
    pc \notin {"start", "name"} /\ ~(pc = "exited" /\ C7_ServerFlagCount > 1)

\* C10: when -y/--yes is given no prompt is issued on any path of the run, not for the
\* name, the server, the tooling nor a non-empty directory, and what was not given takes
\* its default: project name 'ts-project', no server, the empty tooling set.
Thm_C10_YesSkipsPrompts ==
    C9_Has(argv, {Arg_yes, Arg_y}) =>
        /\ prompted = <<>>
        /\ pc \notin {"awaitName", "awaitServer", "awaitTooling", "awaitOverwrite"}
        /\ (C10_Parsed /\ C9_Positionals(argv) = {}) => projectName = C10_DefaultName
        /\ C9_ServerFlagPositions(argv) = {} => selectedServer = UndefinedKey
        /\ ~C9_Has(argv, {Arg_lint, Arg_l, Arg_vitest, Arg_t}) => selectedTooling = {}

Wit_C10_YesAlone ==
    /\ argv = <<Arg_y>>
    /\ pc = "done"
    /\ projectName = C10_DefaultName
    /\ selectedServer = UndefinedKey
    /\ selectedTooling = {}
    /\ prompted = <<>>

Wit_C10_YesNonEmptyRoot ==
    /\ argv = <<Arg_y>>
    /\ pc = "exited"
    /\ exitCode = Exit(1)
    /\ "old.txt" \in DOMAIN files
    /\ prompted = <<>>

\* C12: after every run that completes, eslint.config.js and .prettierrc exist in the root
\* iff lint is selected, src/example.test.ts exists iff vitest is selected, and
\* tsconfig.json and src/index.ts exist for every configuration.
Thm_C12_FilesMatchTooling ==
    pc = "done" =>
        /\ "eslint.config.js" \in DOMAIN files <=> "lint" \in selectedTooling
        /\ ".prettierrc" \in DOMAIN files <=> "lint" \in selectedTooling
        /\ "src/example.test.ts" \in DOMAIN files <=> "vitest" \in selectedTooling
        /\ "tsconfig.json" \in DOMAIN files
        /\ "src/index.ts" \in DOMAIN files

\* a completed run with vitest and without lint, in a root that held a .prettierrc before
Wit_C12_VitestOnlyOverOldRoot ==
    /\ pc = "done"
    /\ selectedTooling = {"vitest"}
    /\ prompted = <<"server", "overwrite">>
    /\ "src/example.test.ts" \in DOMAIN files
    /\ ".prettierrc" \notin DOMAIN files

\* the generated files other than package.json and .gitignore
C13_GeneratedFiles ==
    {"tsconfig.json", "src/index.ts", "eslint.config.js", ".prettierrc", "src/example.test.ts"}

\* the generated files the selection asks for are all written
C13_WritesFinished ==
    /\ {"tsconfig.json", "src/index.ts"} \subseteq DOMAIN files
    /\ "lint" \in selectedTooling => {"eslint.config.js", ".prettierrc"} \subseteq DOMAIN files
    /\ "vitest" \in selectedTooling => "src/example.test.ts" \in DOMAIN files

\* the install command has run and has recorded the dependencies
C13_InstallFinished ==
    /\ Len(executed) >= 2
    /\ "package.json" \in DOMAIN files
    /\ "dependencies" \in DOMAIN files["package.json"]

\* C13 as stated: the generated files are written before the dependency install starts.
Orig_C13_WritesBeforeInstall ==
    Len(executed) >= 2 => C13_WritesFinished

\* C13 (amended): the steps run in the order directory creation, package-manager init,
\* manifest mutation, dependency install, writes of the generated files, git init, and
\* none starts before the one before it has finished.
Thm_C13_StepOrder ==
    /\ Len(executed) = 0 => "package.json" \notin DOMAIN files
    /\ Len(executed) >= 1 =>
           /\ rootExists
           /\ "old.txt" \notin DOMAIN files
           /\ executed[1] = getInitCommand(pm)
    /\ C4_ManifestUpdated => Len(executed) >= 1
    /\ Len(executed) >= 2 =>
           /\ C4_ManifestUpdated
           /\ executed[2] = getAddCommand(pm, deps)
    /\ (Len(executed) >= 1 /\ C13_GeneratedFiles \cap DOMAIN files # {}) =>
           C13_InstallFinished
    /\ "src/index.ts" \in DOMAIN files => "tsconfig.json" \in DOMAIN files
    /\ (Len(executed) >= 1
          /\ {"eslint.config.js", ".prettierrc", "src/example.test.ts"} \cap DOMAIN files # {}) =>
           "src/index.ts" \in DOMAIN files
    /\ Len(executed) >= 3 =>
           /\ Len(executed) = 3
           /\ executed[3] = GitInitCommand
           /\ C13_WritesFinished
    /\ ".gitignore" \in DOMAIN files => Len(executed) >= 3

\* the install has finished and the first generated file is written, the others are not
Wit_C13_InstallThenWrites ==
    /\ pc = "index"
    /\ C13_InstallFinished
    /\ C13_GeneratedFiles \cap DOMAIN files = {"tsconfig.json"}
    /\ "lint" \in selectedTooling

\* the run has printed the line
C14_Printed(text) ==
    Log(text) \in Range(output)

\* C14 as stated: every run that prints Done! leaves .gitignore and a git repository.
Orig_C14_DoneLeavesGit ==
    C14_Printed(Msg_Done) =>
        /\ ".gitignore" \in DOMAIN files
        /\ gitRepo

\* C14 (amended): a completed run that printed 'Git repository initialized.' leaves a
\* .gitignore listing node_modules, dist and .DS_Store and an initialized repository;
\* every other completed run printed 'Could not initialize git repository.' and leaves
\* no .gitignore.
Thm_C14_GitignoreWhenGitSucceeds ==
    C14_Printed(Msg_Done) =>
        /\ pc = "done"
        /\ C14_Printed(Msg_GitDone) =>
               /\ ".gitignore" \in DOMAIN files
               /\ files[".gitignore"] = "node_modules\ndist\n.DS_Store\n"
               /\ gitRepo
        /\ ~C14_Printed(Msg_GitDone) =>
               /\ C14_Printed(Msg_GitFailed)
               /\ ".gitignore" \notin DOMAIN files

\* a completed run whose git step succeeded
Wit_C14_DoneWithGit ==
    /\ pc = "done"
    /\ C14_Printed(Msg_Done)
    /\ C14_Printed(Msg_GitDone)
    /\ ".gitignore" \in DOMAIN files
    /\ gitRepo

\* C15: after the manifest mutation the written package.json has
\* name = toValidPackageName(projectName), type = 'module' and
\* scripts = getScripts(selected server, selected tooling) in place of the scripts the
\* init command produced, every other field of the initialized manifest is kept, and the
\* project directory is named by the raw project name.
Thm_C15_ManifestMutation ==
    C4_ManifestUpdated =>
        LET pkg == files["package.json"]
        IN  /\ pkg.name = toValidPackageName(projectName)
            /\ pkg.type = "module"
            /\ pkg.scripts = getScripts(selectedServer, selectedTooling)
            /\ "vitest" \notin selectedTooling => "test" \notin DOMAIN pkg.scripts
            /\ DOMAIN pkg \ {"dependencies"} = DOMAIN InitManifest \cup {"type"}
            /\ \A key \in DOMAIN InitManifest \ {"name", "scripts"} :
                   pkg[key] = InitManifest[key]
            /\ Log(Msg_ScaffoldingPrefix \o CwdPath \o <<"/">> \o projectName \o Msg_Dots)
                   \in Range(output)
                \/ projectName = Str_dot

\* the manifest has just been rewritten for a name that is not a valid package name
Wit_C15_NormalizedNameRawDirectory ==
    /\ pc = "collect"
    /\ projectName = <<"M", "y", " ", "A", "p", "i">>
    /\ files["package.json"].name = <<"m", "y", "-", "a", "p", "i">>
    /\ files["package.json"].version = "1.0.0"
    /\ "vitest" \notin selectedTooling

\* the positions of main() at which the configuration is still being resolved
C16_Resolving ==
    {"idle", "start", "name", "awaitName", "server", "awaitServer", "tooling", "awaitTooling"}

\* what a completed run has derived from the configuration
C16_DerivedFromOneConfiguration ==
    pc = "done" =>
        /\ files["package.json"].scripts = getScripts(selectedServer, selectedTooling)
        /\ deps = CollectedDeps(selectedServer, selectedTooling)
        /\ files["src/index.ts"] = getIndexTemplate(selectedServer)
        /\ "eslint.config.js" \in DOMAIN files <=> "lint" \in selectedTooling
        /\ "src/example.test.ts" \in DOMAIN files <=> "vitest" \in selectedTooling

\* C16: once the configuration is resolved (the last of the name, server and tooling
\* prompts is answered), the project name, the selected server, the tooling set and the
\* skip-prompts flag never change for the rest of the run, so the scripts, the dependency
\* list, the entry-point template and the optional config files of a completed run all
\* derive from the same server and tooling values.
Thm_C16_ConfigurationImmutable ==
    /\ [][pc \notin C16_Resolving =>
              UNCHANGED <<projectName, selectedServer, selectedTooling, skipPrompts>>]_vars
    /\ []C16_DerivedFromOneConfiguration

\* a completed run whose whole configuration came from the prompts
Wit_C16_PromptedConfigurationDone ==
    /\ pc = "done"
    /\ prompted = <<"projectName", "server", "tooling">>
    /\ projectName = <<"M", "y", " ", "A", "p", "i">>
    /\ selectedServer = "hono"
    /\ selectedTooling = {"lint", "vitest"}
    /\ skipPrompts = FALSE

\* git init has been run and has failed
C17_GitInitFailed ==
    /\ Len(executed) = 3
    /\ ~gitRepo

\* C17: a failing git init is not fatal: the run reports that the repository could not
\* be initialized, writes no .gitignore, leaves every file of the earlier steps as it
\* was, goes on to print the Done! instructions and does not exit with code 1.
Thm_C17_GitFailureNotFatal ==
    /\ [][(pc = "git" /\ ~gitRepo') =>
              /\ files' = files
              /\ output' = output \o <<Log(Msg_InitGit), Log(Msg_GitFailed)>>
              /\ exitCode' = NoExit
              /\ pc' = "finish"]_vars
    /\ [][pc = "finish" =>
              /\ pc' = "done"
              /\ files' = files
              /\ exitCode' = Exit(0)
              /\ Log(Msg_Done) \in Range(output')]_vars
    /\ [](C17_GitInitFailed =>
              /\ pc \in {"finish", "done"}
              /\ ".gitignore" \notin DOMAIN files
              /\ exitCode # Exit(1)
              /\ C13_WritesFinished
              /\ Log(Msg_GitFailed) \in Range(output))

\* a run completed after git init failed
Wit_C17_DoneWithoutGit ==
    /\ pc = "done"
    /\ C17_GitInitFailed
    /\ Log(Msg_Done) \in Range(output)
    /\ ".gitignore" \notin DOMAIN files
    /\ exitCode = Exit(0)

\* C18: when the install command fails the run prints 'Failed to install dependencies.'
\* and exits with code 1 without any later step: tsconfig.json, src/index.ts, the
\* lint/test files and .gitignore are not written and git init is not run, while the
\* project directory and the mutated package.json remain.
Thm_C18_InstallFailureStops ==
    /\ [][(pc = "install" /\ "dependencies" \notin DOMAIN files'["package.json"]) =>
              /\ output' = Append(output, Log(Msg_InstallFailed))
              /\ exitCode' = Exit(1)
              /\ pc' = "exited"
              /\ files' = files]_vars
    /\ [][pc # "exited"]_vars
    /\ [](Log(Msg_InstallFailed) \in Range(output) =>
              /\ pc = "exited"
              /\ exitCode = Exit(1)
              /\ (C13_GeneratedFiles \cup {".gitignore"}) \cap DOMAIN files = {}
              /\ executed = <<getInitCommand(pm), getAddCommand(pm, deps)>>
              /\ ~gitRepo
              /\ rootExists
              /\ DOMAIN files = {"package.json"}
              /\ files["package.json"].name = packageName
              /\ files["package.json"].type = "module"
              /\ files["package.json"].scripts = getScripts(selectedServer, selectedTooling))

\* a run with lint and vitest selected has ended in a failed install
Wit_C18_InstallFailed ==
    /\ pc = "exited"
    /\ output[Len(output)] = Log(Msg_InstallFailed)
    /\ selectedTooling = {"lint", "vitest"}
    /\ Len(executed) = 2
    /\ "package.json" \in DOMAIN files

\* the lines a failing package-manager init prints
C19_InitFailureLines ==
    {Err(Msg_ErrorPrefix \o getInitCommand(p)) : p \in PackageManagers}

\* the lines that report a failed step: an exception that reached main().catch, or the
\* install step's own report
C19_FailureLines ==
    C19_InitFailureLines \cup {Err(Msg_ErrorPrefix \o <<"f", "s">>), Log(Msg_InstallFailed)}

\* C19: a failure at any step other than git init (directory creation or clean-up,
\* package-manager init, reading or writing package.json, dependency install, writing the
\* generated files) ends the run with exit code 1 and Done! is never printed; a failing
\* package-manager init leaves package.json unmodified and no install is attempted.
Thm_C19_FailureExitsOne ==
    /\ [][(output' # output /\ output'[Len(output')] \in C19_FailureLines) =>
              /\ pc' = "exited"
              /\ exitCode' = Exit(1)]_vars
    /\ [][pc \notin {"exited", "done"}]_vars
    /\ [](C19_FailureLines \cap Range(output) # {} =>
              /\ pc = "exited"
              /\ exitCode = Exit(1)
              /\ Log(Msg_Done) \notin Range(output))
    /\ [](C19_InitFailureLines \cap Range(output) # {} =>
              /\ executed = <<getInitCommand(pm)>>
              /\ "package.json" \notin DOMAIN files
              /\ ~C4_ManifestUpdated)

\* the init command of pnpm has failed
Wit_C19_InitFailed ==
    /\ pc = "exited"
    /\ pm = "pnpm"
    /\ output[Len(output)] = Err(Msg_ErrorPrefix \o <<"p", "n", "p", "m", " ", "i", "n", "i", "t">>)
    /\ Len(executed) = 1
    /\ exitCode = Exit(1)

\* the write of src/index.ts has failed after a successful install
Wit_C19_WriteFailed ==
    /\ pc = "exited"
    /\ output[Len(output)] = Err(Msg_ErrorPrefix \o <<"f", "s">>)
    /\ Len(executed) = 2
    /\ "tsconfig.json" \in DOMAIN files
    /\ "src/index.ts" \notin DOMAIN files

\* the report of a non-empty target directory
C20_NotEmptyLine ==
    Log(<<"D", "i", "r", "e", "c", "t", "o", "r", "y", " ", "\"">> \o projectName
        \o <<"\"", " ", "i", "s", " ", "n", "o", "t", " ", "e", "m", "p", "t", "y", ".", " ",
              "A", "b", "o", "r", "t", "i", "n", "g", ".">>)

\* C20: when the target directory exists and is non-empty and the yes flag is set, the
\* run reports that the directory is not empty and exits with code 1 without removing,
\* creating or modifying any file and without invoking the package manager or git.
Thm_C20_YesNeverOverwrites ==
    /\ [][(pc = "directory" /\ rootExists /\ DOMAIN files # {} /\ skipPrompts) =>
              /\ output' = Append(output, C20_NotEmptyLine)
              /\ exitCode' = Exit(1)
              /\ pc' = "exited"
              /\ files' = files
              /\ rootExists' = rootExists
              /\ executed' = executed
              /\ gitRepo' = gitRepo]_vars
    /\ [](C20_NotEmptyLine \in Range(output) =>
              /\ pc = "exited"
              /\ exitCode = Exit(1)
              /\ skipPrompts
              /\ "overwrite" \notin Range(prompted)
              /\ files = ("old.txt" :> "old") @@ (".prettierrc" :> "old")
              /\ executed = <<>>
              /\ ~gitRepo)

\* the run with --yes over a root that holds files has aborted
Wit_C20_AbortedOverOldRoot ==
    /\ pc = "exited"
    /\ output = <<C20_NotEmptyLine>>
    /\ projectName = <<"m", "y", "-", "a", "p", "p">>
    /\ DOMAIN files = {"old.txt", ".prettierrc"}
    /\ executed = <<>>

\* C21: when the target directory exists and is non-empty and the yes flag is not set,
\* the entries are removed only after the overwrite prompt is confirmed: an answer that
\* is not a confirmation ends the run with code 0 and removes nothing, a confirmation
\* removes every entry before the package-manager init runs; an existing empty directory
\* is used as is and a missing directory is created.
Thm_C21_OverwriteOnlyWhenConfirmed ==
    /\ [][(pc = "directory" /\ rootExists /\ DOMAIN files # {} /\ ~skipPrompts) =>
              /\ pc' = "awaitOverwrite"
              /\ prompted' = Append(prompted, "overwrite")
              /\ files' = files
              /\ executed' = executed]_vars
    /\ [][(pc = "awaitOverwrite" /\ exitCode' = Exit(0)) =>
              /\ pc' = "exited"
              /\ files' = files
              /\ rootExists' = rootExists
              /\ executed' = executed]_vars
    /\ [][(pc = "awaitOverwrite" /\ pc' # "exited") =>
              /\ pc' = "detect"
              /\ DOMAIN files' = {}
              /\ executed' = <<>>]_vars
    /\ [][(pc = "directory" /\ rootExists /\ DOMAIN files = {}) =>
              /\ pc' = "detect"
              /\ files' = files
              /\ rootExists'
              /\ prompted' = prompted]_vars
    /\ [][(pc = "directory" /\ ~rootExists /\ pc' # "exited") =>
              /\ pc' = "detect"
              /\ rootExists'
              /\ DOMAIN files' = {}
              /\ prompted' = prompted]_vars
    /\ [](pc = "init" => rootExists /\ DOMAIN files = {} /\ executed = <<>>)
    /\ []("overwrite" \in Range(prompted) => ~skipPrompts)

\* the overwrite was confirmed and the root is empty when the init command is due
Wit_C21_ConfirmedAndCleared ==
    /\ pc = "init"
    /\ prompted # <<>>
    /\ prompted[Len(prompted)] = "overwrite"
    /\ DOMAIN files = {}
    /\ rootExists

\* the overwrite was declined and the entries are all there
Wit_C21_DeclinedKeepsEntries ==
    /\ pc = "exited"
    /\ exitCode = Exit(0)
    /\ prompted # <<>>
    /\ prompted[Len(prompted)] = "overwrite"
    /\ DOMAIN files = {"old.txt", ".prettierrc"}

\* the positions of main() at which a prompt is open
C22_Prompts ==
    {"awaitName", "awaitServer", "awaitTooling", "awaitOverwrite"}

\* the positions of main() up to the last prompt
C22_UpToLastPrompt ==
    C16_Resolving \cup {"checkName", "directory", "awaitOverwrite"}

\* the lines a cancelled prompt prints
C22_CancelLines ==
    { Log(<<"\n", "O", "p", "e", "r", "a", "t", "i", "o", "n", " ", "c", "a", "n", "c", "e",
            "l", "l", "e", "d", ".">>),
      Log(<<"O", "p", "e", "r", "a", "t", "i", "o", "n", " ", "c", "a", "n", "c", "e", "l",
            "l", "e", "d", ".">>) }

\* C22: cancelling any prompt (name, server, tooling, or the overwrite confirmation)
\* ends the run with exit code 0 before any file or directory is created, modified or
\* removed and before any external command is run.
Thm_C22_CancelBeforeAnyWork ==
    /\ [][(pc' \in C22_UpToLastPrompt \/ (pc \in C22_Prompts /\ exitCode' = Exit(0))) =>
              UNCHANGED <<files, rootExists, executed, gitRepo>>]_vars
    /\ [][(pc \in C22_Prompts /\ output' # output) =>
              \/ /\ output'[Len(output')] \in C22_CancelLines
                 /\ exitCode' = Exit(0)
                 /\ executed = <<>>
              \/ exitCode' = Exit(1)]_vars
    /\ [](C22_CancelLines \cap Range(output) # {} =>
              /\ pc = "exited"
              /\ exitCode = Exit(0)
              /\ executed = <<>>
              /\ ~gitRepo
              /\ files \in {r.files : r \in InitialRoots})

\* the tooling prompt was cancelled over a root that holds files
Wit_C22_ToolingCancelled ==
    /\ pc = "exited"
    /\ exitCode = Exit(0)
    /\ prompted # <<>>
    /\ prompted[Len(prompted)] = "tooling"
    /\ C22_CancelLines \cap Range(output) # {}
    /\ DOMAIN files = {"old.txt", ".prettierrc"}

\* the command line carries the yes flag
C23_Yes ==
    C9_Has(argv, {Arg_yes, Arg_y})

\* the command line carries a tooling flag
C23_ToolingFlagged ==
    C9_Has(argv, {Arg_lint, Arg_l, Arg_vitest, Arg_t})

\* the command line names the project: its last positional argument is not empty
C23_NameGiven ==
    /\ C9_Positionals(argv) # {}
    /\ \E i \in C9_Positionals(argv) :
           /\ \A j \in C9_Positionals(argv) : j <= i
           /\ argv[i] # <<>>

\* C23 as stated: the name prompt is shown only when there is no positional argument.
Orig_C23_NamePromptOnlyWithoutPositional ==
    "projectName" \in Range(prompted) => C9_Positionals(argv) = {}

\* C23 (amended): without the yes flag the name prompt is shown iff the command line
\* gives no positional name or an empty one, the server prompt iff it gives no server
\* flag, the tooling prompt iff it gives no tooling flag; a value given on the command
\* line is never changed after parsing, and the server prompt yields a server of the
\* registry or, for 'None', no selected server.
Thm_C23_PromptIffNotGiven ==
    /\ [][pc = "name" => (pc' = "awaitName" <=> (~C23_Yes /\ ~C23_NameGiven))]_vars
    /\ [][pc = "server" =>
              (pc' = "awaitServer" <=> (~C23_Yes /\ C9_ServerFlagPositions(argv) = {}))]_vars
    /\ [][pc = "tooling" => (pc' = "awaitTooling" <=> (~C23_Yes /\ ~C23_ToolingFlagged))]_vars
    /\ [][prompted' # prompted =>
              \/ pc = "name" /\ pc' = "awaitName" /\ prompted' = Append(prompted, "projectName")
              \/ pc = "server" /\ pc' = "awaitServer" /\ prompted' = Append(prompted, "server")
              \/ pc = "tooling" /\ pc' = "awaitTooling" /\ prompted' = Append(prompted, "tooling")
              \/ pc = "directory" /\ prompted' = Append(prompted, "overwrite")]_vars
    /\ [][(pc # "start" /\ C23_NameGiven) => projectName' = projectName]_vars
    /\ [][(pc # "start" /\ C9_ServerFlagPositions(argv) # {}) =>
              selectedServer' = selectedServer]_vars
    /\ [][(pc # "start" /\ C23_ToolingFlagged) => selectedTooling' = selectedTooling]_vars
    /\ [][pc = "awaitServer" => selectedServer' \in ServerKeys \cup {UndefinedKey}]_vars
    /\ [](C10_Parsed =>
              /\ C9_ServerFlagPositions(argv) # {} =>
                     /\ selectedServer = "express" <=> C9_Has(argv, {Arg_express, Arg_e})
                     /\ selectedServer = "fastify" <=> C9_Has(argv, {Arg_fastify, Arg_f})
                     /\ selectedServer = "hono" <=> C9_Has(argv, {Arg_hono, Arg_h})
              /\ C23_ToolingFlagged =>
                     /\ "lint" \in selectedTooling <=> C9_Has(argv, {Arg_lint, Arg_l})
                     /\ "vitest" \in selectedTooling <=> C9_Has(argv, {Arg_vitest, Arg_t}))

\* the server came from its flag, the name and the tooling from their prompts, and the
\* server prompt was not shown
Wit_C23_ServerFlaggedOthersPrompted ==
    /\ pc = "checkName"
    /\ argv = <<Arg_express>>
    /\ prompted = <<"projectName", "tooling">>
    /\ selectedServer = "express"
    /\ selectedTooling = {"vitest"}

\* the name prompt is open although a positional argument, the empty string, was given
Wit_C23_EmptyPositionalPrompts ==
    /\ pc = "awaitName"
    /\ argv = <<Arg_empty>>
    /\ prompted = <<"projectName">>

\* 'None' was answered in the server prompt
Wit_C23_NoneAnswered ==
    /\ pc = "tooling"
    /\ prompted # <<>>
    /\ prompted[Len(prompted)] = "server"
    /\ selectedServer = UndefinedKey

\* the report of a missing project name
C24_NameRequiredLine ==
    Log(<<"P", "r", "o", "j", "e", "c", "t", " ", "n", "a", "m", "e", " ", "i", "s", " ",
          "r", "e", "q", "u", "i", "r", "e", "d", ".">>)

\* C24: when the resolved project name is empty (the name prompt was answered with an
\* empty value) the run prints 'Project name is required.' and exits with code 1 before
\* any directory is created and before any external command is run.
Thm_C24_EmptyNameRejected ==
    /\ [][(pc = "checkName" /\ projectName = <<>>) =>
              /\ output' = Append(output, C24_NameRequiredLine)
              /\ exitCode' = Exit(1)
              /\ pc' = "exited"
              /\ UNCHANGED <<files, rootExists, executed, gitRepo>>]_vars
    /\ [][pc' \in C16_Resolving \cup {"checkName"} =>
              UNCHANGED <<files, rootExists, executed, gitRepo>>]_vars
    /\ [](C24_NameRequiredLine \in Range(output) =>
              /\ pc = "exited"
              /\ exitCode = Exit(1)
              /\ projectName = <<>>
              /\ prompted # <<>>
              /\ prompted[1] = "projectName"
              /\ executed = <<>>
              /\ ~gitRepo
              /\ files \in {r.files : r \in InitialRoots})
    /\ []((pc \notin C16_Resolving \cup {"checkName", "exited"}) => Truthy(projectName))

\* the name prompt was answered with the empty string and the root is still missing
Wit_C24_EmptyAnswerRejected ==
    /\ pc = "exited"
    /\ output = <<C24_NameRequiredLine>>
    /\ projectName = <<>>
    /\ ~rootExists
    /\ executed = <<>>

\* the start instruction of each package manager
C25_StartLine(p) ==
    CASE p = "npm" -> Log(<<" ", " ", "n", "p", "m", " ", "r", "u", "n", " ", "s", "t", "a", "r", "t", "\n">>)
      [] p = "yarn" -> Log(<<" ", " ", "y", "a", "r", "n", " ", "s", "t", "a", "r", "t", "\n">>)
      [] p = "pnpm" -> Log(<<" ", " ", "p", "n", "p", "m", " ", "s", "t", "a", "r", "t", "\n">>)
      [] p = "bun" -> Log(<<" ", " ", "b", "u", "n", " ", "s", "t", "a", "r", "t", "\n">>)

\* the name of each package manager as its commands spell it
C25_PmName(p) ==
    CASE p = "npm" -> <<"n", "p", "m">>
      [] p = "yarn" -> <<"y", "a", "r", "n">>
      [] p = "pnpm" -> <<"p", "n", "p", "m">>
      [] p = "bun" -> <<"b", "u", "n">>

\* the line that tells the user to change into the project directory
C25_CdLine ==
    Log(<<" ", " ", "c", "d", " ">> \o projectName)

\* C25: on completion the printed start instruction is 'npm run start' when the detected
\* package manager is npm and '<pm> start' for yarn, pnpm and bun, for the package manager
\* that ran init and add, and the 'cd <project name>' line is printed iff the project
\* root differs from the current working directory.
Thm_C25_DoneInstructions ==
    pc = "done" =>
        /\ output[Len(output)] = C25_StartLine(pm)
        /\ \A p \in PackageManagers \ {pm} : C25_StartLine(p) \notin Range(output)
        /\ Len(executed) = 3
        /\ StartsWith(executed[1], C25_PmName(pm) \o <<" ">>)
        /\ StartsWith(executed[2], C25_PmName(pm) \o <<" ">>)
        /\ C25_CdLine \in Range(output) <=> projectName # <<".">>
        /\ projectName # <<".">> => output[Len(output) - 1] = C25_CdLine

\* a run in the current working directory has completed with yarn
Wit_C25_YarnInCwd ==
    /\ pc = "done"
    /\ pm = "yarn"
    /\ projectName = <<".">>
    /\ C25_CdLine \notin Range(output)
    /\ output[Len(output)] = C25_StartLine("yarn")

\* a run in a directory of its own has completed with npm
Wit_C25_NpmInOwnDirectory ==
    /\ pc = "done"
    /\ pm = "npm"
    /\ projectName = <<"m", "y", "-", "a", "p", "p">>
    /\ output[Len(output) - 1] = C25_CdLine
    /\ output[Len(output)] = C25_StartLine("npm")

\* the executables a script command invokes: the first word of each command of an &&
\* chain
C26_Tools(command) ==
    CASE command = "tsx watch ./src/index.ts" -> {"tsx"}
      [] command = "rimraf ./dist && tsc" -> {"rimraf", "tsc"}
      [] command = "eslint src/" -> {"eslint"}
      [] command = "eslint src/ --fix" -> {"eslint"}
      [] command = "prettier --write src/" -> {"prettier"}
      [] command = "vitest" -> {"vitest"}
      [] command = "vitest run" -> {"vitest"}
      [] OTHER -> {"unknown"}

\* the package that ships an executable
C26_Package(tool) ==
    CASE tool = "tsx" -> <<"t", "s", "x">>
      [] tool = "rimraf" -> <<"r", "i", "m", "r", "a", "f">>
      [] tool = "tsc" -> <<"t", "y", "p", "e", "s", "c", "r", "i", "p", "t">>
      [] tool = "eslint" -> <<"e", "s", "l", "i", "n", "t">>
      [] tool = "prettier" -> <<"p", "r", "e", "t", "t", "i", "e", "r">>
      [] tool = "vitest" -> <<"v", "i", "t", "e", "s", "t">>
      [] OTHER -> <<>>

\* the executables the scripts of the written manifest invoke
C26_ToolsOfManifest ==
    LET scripts == files["package.json"].scripts
    IN  UNION {C26_Tools(scripts[key]) : key \in DOMAIN scripts}

\* C26: for every configuration, every tool a generated script invokes is provided by a
\* package of the dependency list of the same configuration: tsx, rimraf and typescript
\* (tsc) always, eslint and prettier whenever the lint scripts are present, vitest
\* whenever the test scripts are present; no script references a tool whose package is
\* absent.
Thm_C26_ScriptToolsInstalled ==
    deps # <<>> =>
        LET scripts == files["package.json"].scripts
        IN  /\ \A tool \in C26_ToolsOfManifest : C26_Package(tool) \in Range(deps)
            /\ {"tsx", "rimraf", "tsc"} \subseteq C26_ToolsOfManifest
            /\ {"lint", "lint:fix", "format"} \cap DOMAIN scripts # {} =>
                   /\ {"eslint", "prettier"} \subseteq C26_ToolsOfManifest
                   /\ {C26_Package("eslint"), C26_Package("prettier")} \subseteq Range(deps)
            /\ {"test", "test:run"} \cap DOMAIN scripts # {} =>
                   /\ "vitest" \in C26_ToolsOfManifest
                   /\ C26_Package("vitest") \in Range(deps)

\* the dependencies are collected for a configuration with lint and vitest
Wit_C26_AllToolsInstalled ==
    /\ pc = "install"
    /\ selectedTooling = {"lint", "vitest"}
    /\ C26_ToolsOfManifest = {"tsx", "rimraf", "tsc", "eslint", "prettier", "vitest"}
    /\ \A tool \in C26_ToolsOfManifest : C26_Package(tool) \in Range(deps)

\* the rearrangements of an argument list
C27_Permutations(args) ==
    LET n == Len(args)
    IN  {[i \in 1..n |-> args[p[i]]] :
            p \in {q \in [1..n -> 1..n] : \A i, j \in 1..n : q[i] = q[j] => i = j}}

\* the argument starts with '-' and is none of the flags parseArgs knows
C27_UnknownFlag(arg) ==
    /\ arg # <<>>
    /\ arg[1] = "-"
    /\ arg \notin {Arg_express, Arg_e, Arg_fastify, Arg_f, Arg_hono, Arg_h, Arg_lint, Arg_l,
                    Arg_vitest, Arg_t, Arg_yes, Arg_y}

C27_NotUnknownFlag(arg) ==
    ~C27_UnknownFlag(arg)

\* C27: parseArgs does not depend on the order of its arguments: every permutation of a
\* list with at most one positional argument gives the same server, tooling set, yes
\* flag and project name; with several positional arguments the last one is the project
\* name; an argument that starts with '-' and is not a known flag is ignored and is never
\* the project name.
Thm_C27_OrderIndependent ==
    (call.fn = "parseArgs" /\ ret.done) =>
        LET a == call.args
            r == ret.value.result
        IN  /\ Cardinality(C9_Positionals(a)) <= 1 =>
                   \A b \in C27_Permutations(a) :
                       /\ parseArgs(b).result = r
                       /\ parseArgs(b).exit = ret.value.exit
            /\ C9_Positionals(a) # {} =>
                   \E i \in C9_Positionals(a) :
                       /\ \A j \in C9_Positionals(a) : j <= i
                       /\ r.projectName = a[i]
            /\ C9_Positionals(a) = {} => r.projectName = UndefinedStr
            /\ ~C27_UnknownFlag(r.projectName)
            /\ parseArgs(SelectSeq(a, C27_NotUnknownFlag)) = ret.value

\* a list with one positional argument, an unknown flag and a server flag is parsed
Wit_C27_UnknownFlagIgnored ==
    /\ call.fn = "parseArgs"
    /\ ret.done
    /\ call.args = <<Arg_e, Arg_unknown, Arg_myApp>>
    /\ ret.value.result.projectName = <<"m", "y", "-", "a", "p", "p">>
    /\ ret.value.result.server = "express"

\* a list with two positional arguments is parsed
Wit_C27_LastPositionalWins ==
    /\ call.fn = "parseArgs"
    /\ ret.done
    /\ call.args = <<Arg_myApp, Arg_y, Arg_MyApi>>
    /\ ret.value.result.projectName = <<"M", "y", " ", "A", "p", "i">>

\* the characters of the class [a-z0-9-~]
C28_Class ==
    {"a", "b", "c", "d", "e", "f", "g", "h", "i", "j", "k", "l", "m",
     "n", "o", "p", "q", "r", "s", "t", "u", "v", "w", "x", "y", "z",
     "0", "1", "2", "3", "4", "5", "6", "7", "8", "9", "-", "~"}

\* the characters that no step of the function turns into one of the class: neither of
\* the class nor an upper-case letter
C28_Disallowed(char) ==
    char \notin C28_Class \cup
        {"A", "B", "C", "D", "E", "F", "G", "H", "I", "J", "K", "L", "M",
         "N", "O", "P", "Q", "R", "S", "T", "U", "V", "W", "X", "Y", "Z"}

\* C28: the result of toValidPackageName contains only characters of [a-z0-9-~] for every
\* input; it is empty for an empty or whitespace-only input and empty or made of hyphens
\* only for an input made only of disallowed characters.
Thm_C28_ResultInClass ==
    (call.fn = "toValidPackageName" /\ ret.done) =>
        /\ Range(ret.value) \subseteq C28_Class
        /\ Range(call.name) \subseteq {" ", "\t", "\n"} => ret.value = <<>>
        /\ (\A i \in DOMAIN call.name : C28_Disallowed(call.name[i])) =>
               Range(ret.value) \subseteq {"-"}

\* C28, the orchestrator: the result is written as the package name whatever it is; the
\* only name main() refuses is an empty project name.
Thm_C28_WrittenUnchecked ==
    /\ [][(pc = "checkName" /\ projectName # <<>>) =>
              /\ pc' = "directory"
              /\ packageName' = toValidPackageName(projectName)]_vars
    /\ [](C4_ManifestUpdated =>
              /\ files["package.json"].name = packageName
              /\ Range(packageName) \subseteq C28_Class)

\* an input made only of disallowed characters gave a single hyphen
Wit_C28_OnlyHyphens ==
    /\ call.fn = "toValidPackageName"
    /\ ret.done
    /\ call.name = <<"!", ".", "!">>
    /\ ret.value = <<"-">>

\* a whitespace-only input gave the empty string
Wit_C28_EmptyFromWhitespace ==
    /\ call.fn = "toValidPackageName"
    /\ ret.done
    /\ call.name = <<" ", " ">>
    /\ ret.value = <<>>

\* main() has written a manifest whose name is the empty string
Wit_C28_EmptyNameWritten ==
    /\ C4_ManifestUpdated
    /\ projectName = <<".">>
    /\ files["package.json"].name = <<>>

\* the positions of the executed commands that are the given command
C29_Runs(command) ==
    {i \in DOMAIN executed : executed[i] = command}

\* C29: every run terminates: when every prompt is eventually answered or cancelled and
\* every external command eventually returns or fails, the run eventually reaches a
\* terminal state (completed, cancelled with code 0, or failed with code 1), and the
\* package-manager init command and the add command are each executed at most once,
\* init before add.
Thm_C29_Terminates ==
    /\ <>(pc \in {"done", "exited"})
    /\ [][pc \notin {"done", "exited"}]_vars
    /\ [](pc = "done" => exitCode = Exit(0))
    /\ [](pc = "exited" => exitCode \in {Exit(0), Exit(1)})
    /\ [](pc \notin {"done", "exited"} => exitCode = NoExit)
    /\ [](/\ Cardinality(C29_Runs(getInitCommand(pm))) <= 1
          /\ Cardinality(C29_Runs(getAddCommand(pm, deps))) <= 1
          /\ \A i \in C29_Runs(getInitCommand(pm)) :
                 \A j \in C29_Runs(getAddCommand(pm, deps)) : i < j
          /\ \A i \in DOMAIN executed :
                 executed[i] \in {getInitCommand(pm), getAddCommand(pm, deps), GitInitCommand}
          /\ Len(executed) <= 3)

\* a completed run: init, add and git init have each run once, in this order
Wit_C29_CompletedRun ==
    /\ pc = "done"
    /\ exitCode = Exit(0)
    /\ C29_Runs(getInitCommand(pm)) = {1}
    /\ C29_Runs(getAddCommand(pm, deps)) = {2}
    /\ C29_Runs(GitInitCommand) = {3}
====
